---- MODULE Spec2Model ----
(***************************************************************************)
(* NewsGuardAI: the article extraction pipeline of url_scraper.py, the     *)
(* analyzer of groq_api.py, the scorer of domain_credibility.py and the    *)
(* single-article mode of app.py.                                          *)
(*                                                                         *)
(* Article text and metadata values are sequences of one-character         *)
(* strings; URLs are sequences of lexical tokens whose concatenation is    *)
(* the URL string.                                                         *)
(*                                                                         *)
(* Spec      one caller at a time calls extract_article_content            *)
(* FairSpec  the same call on a few inputs, each step eventually taken     *)
(* TextSpec  clean_text applied to every short text, then to its output    *)
(* ConcSpec  several callers inside extract_article_content at once        *)
(* GroqSpec  analyze_article_with_groq on one article text                 *)
(* ScoreSpec calculate_domain_score on one url                             *)
(* UiSpec    a session of the single-article mode, one script run a step   *)
(***************************************************************************)
EXTENDS Integers, Sequences, FiniteSets, TLC

(***************************************************************************)
(* Bounds of the model.                                                    *)
(***************************************************************************)
\* longest URL argument, in tokens
MaxUrlLen == 4
\* longest run of whitespace put around a sample text by a page
MaxPad == 1
\* longest text clean_text is applied to on its own, in characters
MaxTextLen == 5
\* how many times in a row clean_text is applied to its own output
MaxCleanings == 2
\* callers that can be inside extract_article_content at the same time
NumCallers == 2
\* analyses saved to the database in one session
MaxSaved == 2
\* clicks on Clear Results in one session
MaxClears == 1

(***************************************************************************)
(* Python values.                                                          *)
(***************************************************************************)
\* None where a string is expected; no string equals it, since the elements
\* of a string are single characters
None == <<"None">>
\* None where a dict is expected (a strategy's return value)
NoResult == [none |-> TRUE]

\* bool(result) for a value that is None or a dict
Truthy(d) == d # NoResult /\ DOMAIN d # {}

\* d.get(key, default)
Get(d, key, default) == IF key \in DOMAIN d THEN d[key] ELSE default

\* s * n for a one-element sequence s
RECURSIVE Rep(_, _)
Rep(s, n) == IF n <= 0 THEN <<>> ELSE s \o Rep(s, n - 1)

\* a.startswith(p), on sequences
StartsWith(a, p) == Len(a) >= Len(p) /\ SubSeq(a, 1, Len(p)) = p

(***************************************************************************)
(* urllib.parse.urlparse, on token sequences.                              *)
(***************************************************************************)
\* the lexical tokens URLs are made of
UrlTokens == {"https", "ftp", ":", "//", "/article", "example.com", "["}

\* tokens made only of scheme characters (letters, digits, "+", "-", ".")
SchemeTokens == {"https", "ftp", "example.com"}

\* tokens that contain one of the delimiters "/", "?", "#" ending a netloc
DelimTokens == {"//", "/article"}

\* position of the first ":" (url.find(':')), 0 when there is none
FindColon(u) ==
    IF \E k \in 1..Len(u) : u[k] = ":"
    THEN CHOOSE k \in 1..Len(u) : u[k] = ":" /\ \A j \in 1..(k - 1) : u[j] # ":"
    ELSE 0

\* the scheme part: the text before the first ":" when it is a legal scheme
UrlScheme(u) ==
    LET colon == FindColon(u) IN
    IF colon > 1 /\ \A j \in 1..(colon - 1) : u[j] \in SchemeTokens
    THEN SubSeq(u, 1, colon - 1)
    ELSE <<>>

\* what follows the scheme and its ":" (the whole url when there is no scheme)
UrlRest(u) ==
    IF UrlScheme(u) = <<>> THEN u ELSE SubSeq(u, FindColon(u) + 1, Len(u))

\* the network location: after a leading "//", up to the next delimiter
UrlNetloc(u) ==
    LET rest == UrlRest(u) IN
    IF Len(rest) >= 1 /\ rest[1] = "//"
    THEN LET tail == SubSeq(rest, 2, Len(rest))
             stop == IF \E k \in 1..Len(tail) : tail[k] \in DelimTokens
                     THEN CHOOSE k \in 1..Len(tail) :
                              tail[k] \in DelimTokens /\ \A j \in 1..(k - 1) : tail[j] \notin DelimTokens
                     ELSE Len(tail) + 1
         IN SubSeq(tail, 1, stop - 1)
    ELSE <<>>

\* urlparse raises ValueError("Invalid IPv6 URL") on an unmatched bracket
UrlParseRaises(u) == \E k \in 1..Len(UrlNetloc(u)) : UrlNetloc(u)[k] = "["

\* is_valid_url with any() in place of all(): a scheme or a host suffices
is_valid_url_any(u) ==
    IF UrlParseRaises(u) THEN FALSE
    ELSE UrlScheme(u) # <<>> \/ UrlNetloc(u) # <<>>

\* ArticleScraper.is_valid_url
is_valid_url(u) ==
    IF UrlParseRaises(u) THEN FALSE
    ELSE UrlScheme(u) # <<>> /\ UrlNetloc(u) # <<>>

(***************************************************************************)
(* ArticleScraper.clean_text, on character sequences.                      *)
(***************************************************************************)
\* characters matched by \s and removed by str.strip()
Whitespace == {" ", "\n", "\t"}

\* last index j >= i - 1 such that text[i..j] is all whitespace
RECURSIVE WsRunEnd(_, _)
WsRunEnd(text, pos) ==
    IF pos <= Len(text) /\ text[pos] \in Whitespace THEN WsRunEnd(text, pos + 1) ELSE pos - 1

\* the first newline in lo..hi instead of the last: \n\s*?\n, not greedy
LastNewline_not_greedy(text, lo, hi) ==
    IF \E k \in lo..hi : text[k] = "\n"
    THEN CHOOSE k \in lo..hi : text[k] = "\n" /\ \A j \in lo..(k - 1) : text[j] # "\n"
    ELSE 0

\* last index in lo..hi holding a newline, 0 when there is none
LastNewline(text, lo, hi) ==
    IF \E k \in lo..hi : text[k] = "\n"
    THEN CHOOSE k \in lo..hi : text[k] = "\n" /\ \A j \in (k + 1)..hi : text[j] # "\n"
    ELSE 0

\* re.sub(r'\n\s*\n', '\n\n', text), scanning from index i
RECURSIVE SubBlankLines(_, _)
SubBlankLines(text, pos) ==
    IF pos > Len(text) THEN <<>>
    ELSE LET k == IF text[pos] = "\n" THEN LastNewline(text, pos + 1, WsRunEnd(text, pos + 1)) ELSE 0 IN
         IF k # 0
         THEN <<"\n", "\n">> \o SubBlankLines(text, k + 1)
         ELSE <<text[pos]>> \o SubBlankLines(text, pos + 1)

\* last index j >= i - 1 such that text[i..j] is all spaces
RECURSIVE SpaceRunEnd(_, _)
SpaceRunEnd(text, pos) ==
    IF pos <= Len(text) /\ text[pos] = " " THEN SpaceRunEnd(text, pos + 1) ELSE pos - 1

\* text.replace('  ', ' ') instead: every pair of spaces becomes one space
RECURSIVE SubSpaces_replace_pairs(_, _)
SubSpaces_replace_pairs(text, pos) ==
    IF pos > Len(text) THEN <<>>
    ELSE IF text[pos] = " " /\ pos < Len(text) /\ text[pos + 1] = " "
         THEN <<" ">> \o SubSpaces_replace_pairs(text, pos + 2)
         ELSE <<text[pos]>> \o SubSpaces_replace_pairs(text, pos + 1)

\* re.sub(r' +', ' ', text), scanning from index i
RECURSIVE SubSpaces(_, _)
SubSpaces(text, pos) ==
    IF pos > Len(text) THEN <<>>
    ELSE IF text[pos] = " "
         THEN <<" ">> \o SubSpaces(text, SpaceRunEnd(text, pos) + 1)
         ELSE <<text[pos]>> \o SubSpaces(text, pos + 1)

\* str.strip()
Strip(text) ==
    IF \A k \in 1..Len(text) : text[k] \in Whitespace THEN <<>>
    ELSE LET first == CHOOSE k \in 1..Len(text) :
                          text[k] \notin Whitespace /\ \A j \in 1..(k - 1) : text[j] \in Whitespace
             last == CHOOSE k \in 1..Len(text) :
                          text[k] \notin Whitespace /\ \A j \in (k + 1)..Len(text) : text[j] \in Whitespace
         IN SubSeq(text, first, last)

\* ArticleScraper.clean_text
clean_text(text) ==
    IF text = None \/ text = <<>> THEN <<>>   \* if not text: return ""
    ELSE Strip(SubSpaces(SubBlankLines(text, 1), 1))

(***************************************************************************)
(* Acceptance thresholds of extract_article_content.                       *)
(***************************************************************************)
\* a strategy's result is accepted when len(content) > AcceptThreshold
AcceptThreshold == 50
\* the call fails when len(content) < FinalFloor
FinalFloor == 20

(***************************************************************************)
(* What the network can answer: sample texts and pages.                    *)
(***************************************************************************)
\* sep.join(parts)
RECURSIVE Join(_, _)
Join(parts, sep) ==
    IF parts = <<>> THEN <<>>
    ELSE IF Len(parts) = 1 THEN parts[1]
    ELSE parts[1] \o sep \o Join(Tail(parts), sep)

\* lengths of cleaned text around the two thresholds
SampleLens ==
    {0, FinalFloor - 1, FinalFloor, FinalFloor + 1, AcceptThreshold, AcceptThreshold + 1}

\* a text that cleans to n characters: two words separated by 1 + gap spaces
Body(n, gap) ==
    IF n < 3 THEN Rep(<<"a">>, n)
    ELSE <<"a", " ">> \o Rep(<<" ">>, gap) \o Rep(<<"a">>, n - 2)

\* raw texts: a body with up to MaxPad whitespace characters on each side and
\* in its gap, and one text of two paragraphs separated by blank lines
Texts ==
    {Rep(<<" ">>, k) \o Body(n, k) \o Rep(<<"\n">>, k) : n \in SampleLens, k \in 0..MaxPad}
    \cup {<<"a", "\n", " ", "\n", "\n">> \o Rep(<<"a">>, AcceptThreshold - 2)}

\* lists of paragraph texts found in a page (soup.find_all('p'))
ParagraphLists ==
    {<<>>} \cup {<<t>> : t \in Texts}
    \cup {<<<<"a">>, <<>>, Rep(<<"a">>, AcceptThreshold - 2)>>}

\* sample metadata strings
Title == <<"T">>
Author == <<"A">>
Date == <<"D">>
Description == <<"d">>

(***************************************************************************)
(* Exceptions: the body of a try block either raises or returns a value.   *)
(***************************************************************************)
Raised == [exc |-> TRUE, value |-> NoResult]
Returned(v) == [exc |-> FALSE, value |-> v]

\* try: <body>  except Exception as e: print(...); return None
ExceptReturnNone(body) == IF body.exc THEN Returned(NoResult) ELSE body

(***************************************************************************)
(* Strategy 1: scrape_with_trafilatura.                                    *)
(***************************************************************************)
\* getattr(obj, name, default): obj is None or a metadata document
GetAttr(obj, name, default) ==
    IF obj # NoResult /\ name \in DOMAIN obj THEN obj[name] ELSE default

\* metadata documents of trafilatura.extract_metadata: None, or a document
\* whose attributes are strings or None
TrafilaturaMetadata ==
    {NoResult,
     [title |-> Title, author |-> Author, date |-> Date, description |-> Description],
     [title |-> Title, author |-> None, date |-> None, description |-> None]}

\* answers of the trafilatura library for one URL: the step that raises (if
\* any), whether fetch_url downloaded something, the extracted text (<<>>
\* for None or ""), the metadata document
TrafilaturaEnvs ==
    {[fault |-> f, downloaded |-> TRUE, text |-> Body(AcceptThreshold + 1, 0),
      metadata |-> NoResult] : f \in {"fetch_url", "extract", "extract_metadata"}}
    \cup {[fault |-> "none", downloaded |-> FALSE, text |-> <<>>, metadata |-> NoResult]}
    \cup {[fault |-> "none", downloaded |-> TRUE, text |-> t, metadata |-> m] :
            t \in Texts, m \in TrafilaturaMetadata}

trafilatura_body(env) ==
    IF env.fault = "fetch_url" THEN Raised
    ELSE IF ~env.downloaded THEN Returned(NoResult)
    ELSE IF env.fault = "extract" THEN Raised
    ELSE IF env.text = <<>> THEN Returned(NoResult)
    ELSE IF env.fault = "extract_metadata" THEN Raised
    ELSE Returned([content |-> clean_text(env.text),
                 title |-> GetAttr(env.metadata, "title", <<>>),
                 author |-> GetAttr(env.metadata, "author", <<>>),
                 date |-> GetAttr(env.metadata, "date", <<>>),
                 description |-> GetAttr(env.metadata, "description", <<>>)])

scrape_with_trafilatura(env) == ExceptReturnNone(trafilatura_body(env))

(***************************************************************************)
(* Strategy 2: scrape_with_beautifulsoup, with extract_metadata.           *)
(***************************************************************************)
\* the steps of extract_metadata, in the order the code runs them
MetaSteps == <<"title_tag", "meta_title", "h1", "author", "date", "description">>

StepIndex(step) == CHOOSE k \in 1..Len(MetaSteps) : MetaSteps[k] = step

\* step runs when the exception (if any) is raised at a later step
Runs(step, fault) == fault = "none" \/ StepIndex(step) < StepIndex(fault)

\* a or b, for two tags (a found tag is truthy whatever its content)
OrTag(a, b) == IF a # None THEN a ELSE b

\* tag and tag.get('content'): the tag was found and its content is not empty
HasContent(tag) == tag # None /\ tag # <<>>

\* ArticleScraper.extract_metadata: page holds, for every element the code
\* looks up, its text or content attribute, or None when the page lacks it;
\* page.meta_fault is the step that raises, caught inside extract_metadata
extract_metadata(page) ==
    LET f == page.meta_fault
        t1 == IF Runs("title_tag", f) /\ page.title_tag # None
              THEN Strip(page.title_tag) ELSE <<>>
        meta_title == OrTag(page.og_title, page.name_title)
        t2 == IF Runs("meta_title", f) /\ HasContent(meta_title)
              THEN Strip(meta_title) ELSE t1
        t3 == IF Runs("h1", f) /\ page.h1 # None /\ t2 = <<>>
              THEN Strip(page.h1) ELSE t2
        desc_elem == OrTag(page.og_description, page.name_description)
    IN [title |-> t3,
        author |-> IF Runs("author", f) /\ HasContent(page.meta_author)
                   THEN Strip(page.meta_author) ELSE <<>>,
        date |-> IF Runs("date", f) /\ HasContent(page.published_time)
                 THEN Strip(page.published_time) ELSE <<>>,
        description |-> IF Runs("description", f) /\ HasContent(desc_elem)
                        THEN Strip(desc_elem) ELSE <<>>]

\* the head of a page without any metadata element
BareHead ==
    [meta_fault |-> "none", title_tag |-> None, og_title |-> None, name_title |-> None,
     h1 |-> None, meta_author |-> None, published_time |-> None,
     og_description |-> None, name_description |-> None]

\* sample page heads
PageHeads ==
    {BareHead,
     [BareHead EXCEPT !.title_tag = <<" ">> \o Title \o <<"\n">>, !.h1 = <<"H">>,
                      !.meta_author = Author, !.published_time = Date,
                      !.name_description = Description],
     [BareHead EXCEPT !.og_title = <<>>, !.name_title = <<"N">>, !.h1 = <<"H">>,
                      !.og_description = Description, !.meta_fault = "date"]}

\* answers of the site to session.get and of the parser
BeautifulSoupEnvs ==
    {[fault |-> f, head |-> BareHead, paragraphs |-> <<>>] :
        f \in {"get", "raise_for_status", "BeautifulSoup"}}
    \cup {[fault |-> "none", head |-> h, paragraphs |-> ps] :
            h \in PageHeads, ps \in ParagraphLists}

beautifulsoup_body(env) ==
    IF env.fault # "none" THEN Raised
    ELSE LET metadata == extract_metadata(env.head)
             content == clean_text(Join(env.paragraphs, <<"\n">>))
         IN IF content # <<>>
            THEN Returned([content |-> content, title |-> metadata.title,
                         author |-> metadata.author, date |-> metadata.date,
                         description |-> metadata.description])
            ELSE Returned(NoResult)

\* scrape_with_beautifulsoup without its try/except
scrape_with_beautifulsoup_no_except(env) == beautifulsoup_body(env)

scrape_with_beautifulsoup(env) == ExceptReturnNone(beautifulsoup_body(env))

(***************************************************************************)
(* Strategy 3: scrape_with_newspaper.                                      *)
(***************************************************************************)
\* the decimal digit d as a character
Digit(d) == <<"0", "1", "2", "3", "4", "5", "6", "7", "8", "9">>[d + 1]

\* n in decimal, zero-padded to at least width digits
RECURSIVE Digits(_, _)
Digits(n, width) ==
    IF n < 10 /\ width <= 1 THEN <<Digit(n)>>
    ELSE Digits(n \div 10, width - 1) \o <<Digit(n % 10)>>

\* str(publish_date) for a datetime at midnight
DateStr(d) ==
    Digits(d.year, 4) \o <<"-">> \o Digits(d.month, 2) \o <<"-">> \o Digits(d.day, 2)
    \o <<" ", "0", "0", ":", "0", "0", ":", "0", "0">>

\* a or '' for a string attribute that may be None or empty
OrEmpty(v) == IF v = None \/ v = <<>> THEN <<>> ELSE v

\* parsed articles: text, title, authors, publish_date, meta_description
NewspaperArticles ==
    {[text |-> t, title |-> Title, authors |-> <<Author, <<"B">>>>,
      publish_date |-> [year |-> 2024, month |-> 6, day |-> 4],
      meta_description |-> Description] : t \in Texts}
    \cup {[text |-> t, title |-> None, authors |-> <<>>,
           publish_date |-> NoResult, meta_description |-> <<>>] : t \in Texts}

NewspaperEnvs ==
    {[fault |-> f, article |-> a] :
        f \in {"download", "parse"},
        a \in {[text |-> <<>>, title |-> None, authors |-> <<>>,
                publish_date |-> NoResult, meta_description |-> <<>>]}}
    \cup {[fault |-> "none", article |-> a] : a \in NewspaperArticles}

newspaper_body(env) ==
    IF env.fault # "none" THEN Raised
    ELSE LET a == env.article IN
         Returned([content |-> clean_text(a.text),
                 title |-> OrEmpty(a.title),
                 author |-> IF a.authors # <<>> THEN Join(a.authors, <<",", " ">>) ELSE <<>>,
                 date |-> IF a.publish_date # NoResult THEN DateStr(a.publish_date) ELSE <<>>,
                 description |-> OrEmpty(a.meta_description)])

\* scrape_with_newspaper handing on article.text as it is
scrape_with_newspaper_raw(env) ==
    IF env.fault # "none" THEN Returned(NoResult)
    ELSE Returned([newspaper_body(env).value EXCEPT !.content = env.article.text])

scrape_with_newspaper(env) == ExceptReturnNone(newspaper_body(env))

(***************************************************************************)
(* Strategy 4: scrape_with_playwright.                                     *)
(***************************************************************************)
\* the browser calls, in the order the code makes them
PlaywrightFaults == {"sync_playwright", "launch", "new_page", "goto", "content", "close"}

PlaywrightEnvs ==
    {[fault |-> f, paragraphs |-> <<>>] : f \in PlaywrightFaults \cup {"BeautifulSoup"}}
    \cup {[fault |-> "none", paragraphs |-> ps] : ps \in ParagraphLists}

playwright_body(env) ==
    IF env.fault # "none" THEN Raised
    ELSE LET text == Join(env.paragraphs, <<"\n">>) IN
         IF text # <<>> THEN Returned([content |-> clean_text(text)]) ELSE Returned(NoResult)

\* scrape_with_playwright without its except clause
scrape_with_playwright_no_except(env) == playwright_body(env)

scrape_with_playwright(env) == ExceptReturnNone(playwright_body(env))

\* the calls of scrape_with_playwright that come before the browser exists
BeforeLaunch == {"sync_playwright", "launch"}
\* the calls made inside the with block while the browser is open
WhileOpen == {"new_page", "goto", "content", "close"}

\* the browser without the with block: only browser.close() closes it
playwright_browser_no_with(env) ==
    IF env.fault \in BeforeLaunch THEN "none"
    ELSE IF env.fault \in WhileOpen THEN "open"
    ELSE "closed"

\* the browser when scrape_with_playwright returns: "none" if it was never
\* launched, "closed" after browser.close(); when a call inside the with
\* block raises, browser.close() is skipped and the exit of
\* "with sync_playwright()" stops the driver, which ends its browsers:
\* "stopped"
playwright_browser(env) ==
    IF env.fault \in BeforeLaunch THEN "none"
    ELSE IF env.fault \in WhileOpen THEN "stopped"
    ELSE "closed"

(***************************************************************************)
(* extract_article_content.                                                *)
(***************************************************************************)
\* the extractors with the first two exchanged
Methods_swapped ==
    <<"scrape_with_beautifulsoup", "scrape_with_trafilatura",
      "scrape_with_newspaper", "scrape_with_playwright">>

\* the browser extractor moved in front of the last static one
Methods_playwright_third ==
    <<"scrape_with_trafilatura", "scrape_with_beautifulsoup",
      "scrape_with_playwright", "scrape_with_newspaper">>

\* the first extractor tried a second time in place of the second
Methods_retry ==
    <<"scrape_with_trafilatura", "scrape_with_trafilatura",
      "scrape_with_newspaper", "scrape_with_playwright">>

\* the extractors, in the order of the for loop
Methods ==
    <<"scrape_with_trafilatura", "scrape_with_beautifulsoup",
      "scrape_with_newspaper", "scrape_with_playwright">>

\* what the outside world can answer to each extractor
Envs(method) ==
    CASE method = "scrape_with_trafilatura" -> TrafilaturaEnvs
      [] method = "scrape_with_beautifulsoup" -> BeautifulSoupEnvs
      [] method = "scrape_with_newspaper" -> NewspaperEnvs
      [] method = "scrape_with_playwright" -> PlaywrightEnvs

\* method(url), given the answers of the outside world
Invoke(method, env) ==
    CASE method = "scrape_with_trafilatura" -> scrape_with_trafilatura(env)
      [] method = "scrape_with_beautifulsoup" -> scrape_with_beautifulsoup(env)
      [] method = "scrape_with_newspaper" -> scrape_with_newspaper(env)
      [] method = "scrape_with_playwright" -> scrape_with_playwright(env)

\* the browser a call of method leaves behind; only one extractor has one
BrowserAfter(method, env) ==
    IF method = "scrape_with_playwright" THEN playwright_browser(env) ELSE "none"

\* what a call of Methods[k] can return or raise, with whether a step of it
\* raised and the browser it leaves; one set per position of the loop
AnswersOf(method) ==
    {[faulted |-> env.fault # "none", ret |-> Invoke(method, env),
      browser |-> BrowserAfter(method, env)] : env \in Envs(method)}

Answers ==
    <<AnswersOf(Methods[1]), AnswersOf(Methods[2]), AnswersOf(Methods[3]), AnswersOf(Methods[4])>>

\* the URL arguments: every token sequence of at most MaxUrlLen tokens
Urls == UNION {[1..n -> UrlTokens] : n \in 0..MaxUrlLen}

HttpPrefix == <<"http", ":", "//">>
HttpsPrefix == <<"https", ":", "//">>

\* if not url.startswith(('http://', 'https://')): url = 'https://' + url
NormalizeScheme(u) ==
    IF StartsWith(u, HttpPrefix) \/ StartsWith(u, HttpsPrefix)
    THEN u ELSE HttpsPrefix \o u

\* the loop without its break: no result ends it
Accepted_no_break(res) == FALSE

\* the loop breaking on any result, whatever its length
Accepted_any_content(res) == Truthy(res)

\* result and len(result.get('content', '')) > 50
Accepted(res) ==
    Truthy(res) /\ Len(Get(res, "content", <<>>)) > AcceptThreshold

\* the final test with "result and" in place of "not result or"
Rejected_and(res) ==
    Truthy(res) /\ Len(Get(res, "content", <<>>)) < FinalFloor

\* the final test repeating the loop's threshold instead of the floor
Rejected_at_threshold(res) ==
    ~Truthy(res) \/ Len(Get(res, "content", <<>>)) <= AcceptThreshold

\* the final test without the length floor
Rejected_no_floor(res) == ~Truthy(res)

\* not result or len(result.get('content', '')) < 20
Rejected(res) ==
    ~Truthy(res) \/ Len(Get(res, "content", <<>>)) < FinalFloor

InvalidUrlError == "Invalid URL format"
ExhaustedError ==
    "Unable to extract readable content. The site may use paywalls or advanced JS."

\* a failure that carries the rejected text along
Failure_with_content(error) == [success |-> FALSE, error |-> error, content |-> <<"a">>]

Failure(error) == [success |-> FALSE, error |-> error, content |-> <<>>]

Success(res) ==
    [success |-> TRUE, error |-> "",
     content |-> Get(res, "content", <<>>),
     title |-> Get(res, "title", <<>>),
     author |-> Get(res, "author", <<>>),
     date |-> Get(res, "date", <<>>),
     description |-> Get(res, "description", <<>>)]

\* a failure that reports the last extractor's own diagnostic
FinalOutcome_diagnostic(res) ==
    IF Rejected(res) THEN Failure("[Playwright Error] Timeout 40000ms exceeded.")
    ELSE Success(res)

\* the value returned after the loop
FinalOutcome(res) ==
    IF Rejected(res) THEN Failure(ExhaustedError) ELSE Success(res)

VARIABLES
    pc,        \* where the call is: "idle", "loop", "after_loop", "done", "raised"
    input,     \* the argument of the call
    url,       \* the local variable url
    method_idx, \* position of the for loop in Methods
    result,    \* the local variable result
    calls,     \* the extractor calls made so far by this call
    outcome,   \* the returned value
    session,   \* scraper.session: "none" before ArticleScraper(), then "open"
    browser,   \* the browser of the call: "none", "open", "closed", "stopped"
    ct_input,  \* TextSpec: the text clean_text is applied to
    ct_outputs, \* TextSpec: what clean_text returned, each time from the last
    frames,    \* ConcSpec: the locals of each caller's call
    heap,      \* ConcSpec: the ArticleScraper objects alive
    served,    \* ConcSpec: the inputs of the calls that have returned
    g_pc,      \* GroqSpec: "idle", "analyze" (the analyzer exists), "done"
    g_init,    \* GroqSpec: what GroqAnalyzer() did
    g_api,     \* GroqSpec: what the API did, if it was called
    g_text,    \* GroqSpec: the article_text argument
    g_ret,     \* GroqSpec: what analyze_article_with_groq returned
    g_api_calls, \* GroqSpec: calls of chat.completions.create made by the call
    dc_url,    \* ScoreSpec: the url argument of calculate_domain_score
    dc_result, \* ScoreSpec: what calculate_domain_score returned
    ss,        \* UiSpec: st.session_state
    input_method, \* UiSpec: the radio button, "paste" or "url"
    shown      \* UiSpec: the message the last run of the script displayed

call_vars == <<pc, input, url, method_idx, result, calls, outcome, session, browser>>
text_vars == <<ct_input, ct_outputs>>
conc_vars == <<frames, heap, served>>
groq_vars == <<g_pc, g_text, g_init, g_api, g_ret, g_api_calls>>
score_vars == <<dc_url, dc_result>>
ui_vars == <<ss, input_method, shown>>
app_vars == <<groq_vars, score_vars, ui_vars>>
vars == <<call_vars, text_vars, conc_vars, app_vars>>

\* no call of extract_article_content is in progress
CallIdle ==
    /\ pc = "idle"
    /\ input = <<>>
    /\ url = <<>>
    /\ method_idx = 1
    /\ result = NoResult
    /\ calls = <<>>
    /\ outcome = NoResult
    /\ session = "none"
    /\ browser = "none"

\* clean_text is not called on its own
TextIdle == ct_input = <<>> /\ ct_outputs = <<>>

\* the locals of a caller that is not inside extract_article_content
IdleFrame ==
    [pc |-> "idle", input |-> <<>>, url |-> <<>>, method_idx |-> 1,
     result |-> NoResult, calls |-> <<>>, outcome |-> NoResult, scraper |-> 0]

\* no caller is inside extract_article_content
ConcIdle ==
    /\ frames = [c \in 1..NumCallers |-> IdleFrame]
    /\ heap = {}
    /\ served = {}

GroqIdle ==
    /\ g_pc = "idle"
    /\ g_text = <<>>
    /\ g_init = NoResult
    /\ g_api = NoResult
    /\ g_ret = NoResult
    /\ g_api_calls = 0

ScoreIdle == dc_url = <<>> /\ dc_result = NoResult
\* st.session_state after lines 19-37, db being what init_database() returned
InitialSession(db) ==
    [analysis_result |-> NoResult, article_text |-> <<>>, input_key |-> 0,
     current_url |-> None, article_title |-> <<>>, domain_credibility |-> NoResult,
     db |-> db]

UiIdle == ss = InitialSession([rows |-> <<>>]) /\ input_method = "paste" /\ shown = "nothing"

Init == CallIdle /\ TextIdle /\ ConcIdle /\ GroqIdle /\ ScoreIdle /\ UiIdle

\* extract_article_content(u), up to the for loop
Call(u) ==
    /\ pc = "idle"
    /\ input' = u
    /\ session' = "open"
    /\ browser' = "none"
    /\ UNCHANGED <<text_vars, conc_vars, app_vars>>
    /\ calls' = <<>>
    /\ result' = NoResult
    /\ method_idx' = 1
    /\ IF ~is_valid_url(u)
       THEN /\ outcome' = Failure(InvalidUrlError)
            /\ url' = u
            /\ pc' = "done"
       ELSE /\ url' = NormalizeScheme(u)
            /\ outcome' = NoResult
            /\ pc' = "loop"

\* the entry of the call log for one extractor call
CallEntry(method, arg, faulted, r) ==
    [method |-> method, arg |-> arg, faulted |-> faulted,
     content |-> IF r = NoResult THEN None ELSE Get(r, "content", <<>>)]

\* one iteration of the for loop: result = method(url), then the break test
Attempt ==
    /\ pc = "loop"
    /\ \E a \in Answers[method_idx] :
         IF a.ret.exc
         THEN /\ pc' = "raised"
              /\ browser' = a.browser
              /\ UNCHANGED <<result, calls, method_idx>>
         ELSE /\ result' = a.ret.value
              /\ browser' = a.browser
              /\ calls' = Append(calls, CallEntry(Methods[method_idx], url, a.faulted, a.ret.value))
              /\ IF Accepted(a.ret.value) \/ method_idx = Len(Methods)
                 THEN pc' = "after_loop" /\ method_idx' = method_idx
                 ELSE pc' = "loop" /\ method_idx' = method_idx + 1
    /\ UNCHANGED <<input, url, outcome, session, text_vars, conc_vars, app_vars>>

\* the code after the loop: the final length test and the returned dict
Finish ==
    /\ pc = "after_loop"
    /\ outcome' = FinalOutcome(result)
    /\ pc' = "done"
    /\ UNCHANGED <<input, url, method_idx, result, calls, session, browser>>
    /\ UNCHANGED <<text_vars, conc_vars, app_vars>>

\* the caller takes the outcome; the locals of the call are gone
Return ==
    /\ pc = "done"
    /\ pc' = "idle"
    /\ input' = <<>>
    /\ url' = <<>>
    /\ method_idx' = 1
    /\ result' = NoResult
    /\ calls' = <<>>
    /\ outcome' = NoResult
    /\ session' = "none"
    /\ browser' = "none"
    /\ UNCHANGED <<text_vars, conc_vars, app_vars>>

\* a caller calls extract_article_content with some argument
CallAny == pc = "idle" /\ \E u \in Urls : Call(u)

Next ==
    \/ CallAny
    \/ Attempt
    \/ Finish
    \/ Return

Spec == Init /\ [][Next]_vars

(***************************************************************************)
(* The same call on a few inputs, with the steps of the interpreter: a     *)
(* call that can take its next step takes it, each extractor call returns. *)
(***************************************************************************)
\* an accepted input, an input without scheme, an input with another scheme
FairUrls ==
    {<<"https", ":", "//", "example.com", "/article">>,
     <<"example.com", "/article">>,
     <<"ftp", ":", "//", "example.com">>}

FairCallAny == pc = "idle" /\ \E u \in FairUrls : Call(u)

FairNext ==
    \/ FairCallAny
    \/ Attempt
    \/ Finish
    \/ Return

FairSpec == Init /\ [][FairNext]_vars /\ WF_vars(Attempt) /\ WF_vars(Finish)

(***************************************************************************)
(* clean_text on its own: every short text, cleaned and cleaned again.     *)
(***************************************************************************)
\* the characters of the texts: a letter and the whitespace clean_text knows
TextChars == {"a", " ", "\n", "\t"}

\* the arguments of clean_text: None and every text of at most MaxTextLen
TextInputs == {None} \cup UNION {[1..n -> TextChars] : n \in 0..MaxTextLen}

TextInit ==
    /\ CallIdle /\ ConcIdle /\ GroqIdle /\ ScoreIdle /\ UiIdle
    /\ ct_input \in TextInputs /\ ct_outputs = <<>>

\* clean_text(text), text being the input or else the last output
CleanText ==
    /\ Len(ct_outputs) < MaxCleanings
    /\ ct_outputs' = Append(ct_outputs,
           clean_text(IF ct_outputs = <<>> THEN ct_input ELSE ct_outputs[Len(ct_outputs)]))
    /\ UNCHANGED <<ct_input, call_vars, conc_vars, app_vars>>

TextNext == CleanText

TextSpec == TextInit /\ [][TextNext]_vars

(***************************************************************************)
(* Several callers inside extract_article_content at once. Each caller has *)
(* its own locals (frames[c]); ArticleScraper() allocates an object on the *)
(* heap that lives until the call returns.                                 *)
(***************************************************************************)
Callers == 1..NumCallers

\* an accepted input and an input without scheme
ConcUrls == {<<"https", ":", "//", "example.com">>, <<"example.com">>}

\* one answer of Methods[k] of each kind: null after a fault, content over
\* the threshold and, for the last extractor, content at the floor
NullAnswer(k) == CHOOSE a \in Answers[k] : ~a.ret.exc /\ a.faulted /\ a.ret.value = NoResult
AnswerOfLen(k, n) ==
    CHOOSE a \in Answers[k] :
        ~a.ret.exc /\ a.ret.value # NoResult /\ Len(Get(a.ret.value, "content", <<>>)) = n
ConcAnswersOf(k) ==
    {NullAnswer(k), AnswerOfLen(k, AcceptThreshold + 1)}
    \cup (IF k = Len(Methods) THEN {AnswerOfLen(k, FinalFloor)} ELSE {})
ConcAnswers == <<ConcAnswersOf(1), ConcAnswersOf(2), ConcAnswersOf(3), ConcAnswersOf(4)>>

\* one scraper object shared by all calls, as a module-level singleton
NewScraper_singleton(h) == 1

\* ArticleScraper(): a new object, at the first free address
NewScraper(h) ==
    CHOOSE id \in 1..(NumCallers + 1) : id \notin h /\ \A j \in 1..(id - 1) : j \in h

\* extract_article_content(u) by caller c, up to the for loop
ConcCall(c, u) ==
    /\ frames[c].pc = "idle"
    /\ LET id == NewScraper(heap) IN
       /\ heap' = heap \cup {id}
       /\ frames' = [frames EXCEPT ![c] =
              IF ~is_valid_url(u)
              THEN [IdleFrame EXCEPT !.pc = "done", !.input = u, !.url = u,
                                     !.outcome = Failure(InvalidUrlError), !.scraper = id]
              ELSE [IdleFrame EXCEPT !.pc = "loop", !.input = u,
                                     !.url = NormalizeScheme(u), !.scraper = id]]
    /\ UNCHANGED <<served, call_vars, text_vars, app_vars>>

ConcCallAny(c) == frames[c].pc = "idle" /\ \E u \in ConcUrls : ConcCall(c, u)

\* one iteration of caller c's for loop
ConcAttempt(c) ==
    /\ frames[c].pc = "loop"
    /\ \E a \in ConcAnswers[frames[c].method_idx] :
         LET f == frames[c]
             entry == [method |-> Methods[f.method_idx], arg |-> f.url,
                       scraper |-> f.scraper, ret |-> a.ret.value]
         IN frames' = [frames EXCEPT ![c] =
                IF a.ret.exc THEN [f EXCEPT !.pc = "raised"]
                ELSE IF Accepted(a.ret.value) \/ f.method_idx = Len(Methods)
                THEN [f EXCEPT !.result = a.ret.value, !.calls = Append(f.calls, entry),
                               !.pc = "after_loop"]
                ELSE [f EXCEPT !.result = a.ret.value, !.calls = Append(f.calls, entry),
                               !.method_idx = f.method_idx + 1]]
    /\ UNCHANGED <<heap, served, call_vars, text_vars, app_vars>>

\* caller c's code after the loop
ConcFinish(c) ==
    /\ frames[c].pc = "after_loop"
    /\ frames' = [frames EXCEPT ![c] =
           [frames[c] EXCEPT !.outcome = FinalOutcome(frames[c].result), !.pc = "done"]]
    /\ UNCHANGED <<heap, served, call_vars, text_vars, app_vars>>

\* caller c takes the outcome; the locals and the scraper of the call are gone
ConcReturn(c) ==
    /\ frames[c].pc = "done"
    /\ frames' = [frames EXCEPT ![c] = IdleFrame]
    /\ heap' = heap \ {frames[c].scraper}
    /\ served' = served \cup {frames[c].input}
    /\ UNCHANGED <<call_vars, text_vars, app_vars>>

ConcNext ==
    \/ \E c \in Callers : ConcCallAny(c)
    \/ \E c \in Callers : ConcAttempt(c)
    \/ \E c \in Callers : ConcFinish(c)
    \/ \E c \in Callers : ConcReturn(c)

ConcSpec == Init /\ [][ConcNext]_vars

(***************************************************************************)
(* groq_api.py. A reply of the model is a sequence of lexical tokens      *)
(* [k |-> kind, v |-> text] of kind "punct", "str" (a JSON string), "num"  *)
(* (a JSON number), "lit" (a JSON literal) or "word" (prose). Messages of  *)
(* exceptions and the error field of a returned value are sequences of     *)
(* words.                                                                  *)
(***************************************************************************)
\* analyze_article refuses a text whose trimmed length is below this
MinArticleLen == 50

Tok(k, v) == [k |-> k, v |-> v]

\* the integer numerals of the sample replies, with their values
IntLiterals ==
    {<<"85", 85>>, <<"0", 0>>, <<"100", 100>>, <<"101", 101>>, <<"-1", -1>>,
     <<"150", 150>>}

\* the other numerals, with int(float(numeral)): truncation towards zero
FloatLiterals == {<<"85.7", 85>>, <<"-0.5", 0>>, <<"100.9", 100>>}

\* a table of pairs: whether it has an entry for x, and the entry
IsIn(table, x) == \E p \in table : p[1] = x
Lookup(table, x) == (CHOOSE p \in table : p[1] = x)[2]

\* raise etype(msg)
Raise(etype, msg) == [exc |-> TRUE, etype |-> etype, msg |-> msg]

\* int(value), for a value json.loads produced: an int is itself, a float
\* is truncated, inf raises OverflowError, nan ValueError, a string
\* must be an integer numeral, a bool is 0 or 1, None, a dict and a list raise
\* TypeError
int(val) ==
    CASE val.k = "num" ->
            IF IsIn(IntLiterals, val.v) THEN Returned(Lookup(IntLiterals, val.v))
            ELSE Returned(Lookup(FloatLiterals, val.v))
      [] val.k = "str" ->
            IF IsIn(IntLiterals, val.v) THEN Returned(Lookup(IntLiterals, val.v))
            ELSE Raise("ValueError", <<"invalid literal for int()">>)
      [] val.k = "lit" /\ val.v = "true" -> Returned(1)
      [] val.k = "lit" /\ val.v = "false" -> Returned(0)
      [] val.k = "lit" /\ val.v = "Infinity" ->
            Raise("OverflowError", <<"cannot convert float infinity to integer">>)
      [] val.k = "lit" /\ val.v = "NaN" ->
            Raise("ValueError", <<"cannot convert float NaN to integer">>)
      [] OTHER -> Raise("TypeError", <<"int() argument must be a string or a number">>)

\* the confidence stored as converted, without max(0, min(100, confidence))
ClampConfidence_none(confidence) == confidence

\* max(0, min(100, confidence))
ClampConfidence(confidence) ==
    LET capped == IF confidence < 100 THEN confidence ELSE 100
    IN  IF capped > 0 THEN capped ELSE 0

\* re.search(r'\{.*\}', response_text, re.DOTALL): from the first opening
\* brace to the last closing brace after it; <<>> when there is no match
JsonMatch(response_text) ==
    LET opens == {i \in 1..Len(response_text) : response_text[i] = Tok("punct", "{")}
    IN  IF opens = {} THEN <<>>
        ELSE LET first == CHOOSE i \in opens : \A j \in opens : i <= j
                 closes == {i \in (first + 1)..Len(response_text) :
                                response_text[i] = Tok("punct", "}")}
             IN  IF closes = {} THEN <<>>
                 ELSE SubSeq(response_text, first,
                             CHOOSE i \in closes : \A j \in closes : i >= j)

\* the members of a JSON object from position pos on, added to the dict acc:
\* "key" : value, then a comma and more members or the closing brace, which
\* must end the text. A value is a string, a number, a literal, {} or [].
RECURSIVE JsonMembers(_, _, _)
JsonMembers(toks, pos, acc) ==
    IF ~(pos + 2 <= Len(toks) /\ toks[pos].k = "str" /\ toks[pos + 1] = Tok("punct", ":"))
    THEN Raise("JSONDecodeError", <<"Expecting property name">>)
    ELSE LET tok == toks[pos + 2]
             nested == /\ pos + 3 <= Len(toks)
                       /\ \/ tok = Tok("punct", "{") /\ toks[pos + 3] = Tok("punct", "}")
                          \/ tok = Tok("punct", "[") /\ toks[pos + 3] = Tok("punct", "]")
             scalar == tok.k \in {"str", "num", "lit"}
             val == IF nested THEN Tok(IF tok.v = "{" THEN "dict" ELSE "list", "")
                    ELSE tok
             after == IF nested THEN pos + 4 ELSE pos + 3
             dict == (toks[pos].v :> val) @@ acc
         IN  IF ~(nested \/ scalar) \/ after > Len(toks)
             THEN Raise("JSONDecodeError", <<"Expecting value">>)
             ELSE IF toks[after] = Tok("punct", "}")
             THEN IF after = Len(toks) THEN Returned(dict)
                  ELSE Raise("JSONDecodeError", <<"Extra data">>)
             ELSE IF toks[after] = Tok("punct", ",")
             THEN JsonMembers(toks, after + 1, dict)
             ELSE Raise("JSONDecodeError", <<"Expecting ',' delimiter">>)

\* json.loads(json_str) for a text that starts with an opening brace
json_loads(json_str) ==
    IF Len(json_str) = 2 /\ json_str[2] = Tok("punct", "}") THEN Returned(<<>>)
    ELSE JsonMembers(json_str, 2, <<>>)

required_fields == <<"verdict", "confidence", "bias_type", "explanation">>
valid_bias_types == {"Left", "Right", "Neutral", "Sensational", "Emotional", "Clickbait"}

\* parse_analysis_response(response_text): content is None (NoResult), on
\* which strip() raises AttributeError, or [text |-> tokens]; every
\* exception is caught and None returned. The fields of the dict json.loads
\* returned are validated as in lines 96-118.
parse_analysis_response(content) ==
    LET validated(loaded) ==
            IF \E i \in 1..Len(required_fields) : required_fields[i] \notin DOMAIN loaded
            THEN NoResult
            ELSE LET confidence == int(loaded["confidence"])
                 IN  [verdict |-> IF loaded["verdict"] \in {Tok("str", "REAL"), Tok("str", "FAKE")}
                                  THEN loaded["verdict"].v ELSE "UNKNOWN",
                      confidence |-> IF confidence.exc THEN 50
                                     ELSE ClampConfidence(confidence.value),
                      bias_type |-> IF loaded["bias_type"].k = "str"
                                       /\ loaded["bias_type"].v \in valid_bias_types
                                    THEN loaded["bias_type"].v ELSE "Neutral",
                      explanation |-> loaded["explanation"]]
    IN  IF content = NoResult THEN NoResult
        ELSE LET json_str == JsonMatch(content.text)
             IN  IF json_str = <<>> THEN NoResult
                 ELSE LET loaded == json_loads(json_str)
                      IN  IF loaded.exc THEN NoResult ELSE validated(loaded.value)

\* the dict analyze_article returns when parsing fails
FallbackResult ==
    [verdict |-> "UNKNOWN", confidence |-> 50, bias_type |-> "Neutral",
     explanation |-> Tok("str", "Analysis completed but response format was unclear.")]

\* needle in msg.lower(), for a needle that is one word; the words whose
\* lower case differs from themselves are tabulated
InLower(needle, msg) ==
    LET lower == {<<"Rate_Limit", "rate_limit">>, <<"API_KEY", "api_key">>,
                  <<"Unauthorized", "unauthorized">>, <<"Quota", "quota">>}
    IN  \E i \in 1..Len(msg) :
            (IF IsIn(lower, msg[i]) THEN Lookup(lower, msg[i]) ELSE msg[i]) = needle

\* {'success': False, 'error': error, 'result': None}
Failed(error) == [success |-> FALSE, error |-> error, result |-> NoResult]

\* {'success': True, 'error': '', 'result': result}
Analysed(res) == [success |-> TRUE, error |-> <<>>, result |-> res]

\* len(article_text) in place of len(article_text.strip())
TooShort_untrimmed(article_text) ==
    article_text = None \/ Len(article_text) < MinArticleLen

\* not article_text or len(article_text.strip()) < 50
TooShort(article_text) ==
    article_text = None \/ article_text = <<>> \/ Len(Strip(article_text)) < MinArticleLen

\* the except clause of analyze_article, lines 188-205
ApiErrorMessage(error_msg) ==
    IF InLower("rate_limit", error_msg)
    THEN <<"Rate limit exceeded. Please wait a moment and try again.">>
    ELSE IF InLower("api_key", error_msg) \/ InLower("unauthorized", error_msg)
    THEN <<"API authentication failed. Please check your API key.">>
    ELSE IF InLower("quota", error_msg)
    THEN <<"API quota exceeded. Please try again later.">>
    ELSE <<"Analysis failed: ">> \o error_msg

\* str(e) of the exceptions self.client.chat.completions.create raises
ErrorMessages ==
    LET words == {"rate_limit", "Rate_Limit", "API_KEY", "Unauthorized", "quota", "timeout"}
    IN  {<<>>} \cup {<<w>> : w \in words}
        \cup {<<w1, w2>> : w1 \in {"timeout", "Quota"}, w2 \in words}

\* JSON objects with each required field left out or given a sample value
Objects ==
    LET member(key, values) ==
            {<<>>} \cup {<<Tok("str", key), Tok("punct", ":")>> \o val : val \in values}
        object(members) ==
            <<Tok("punct", "{")>>
            \o Join(SelectSeq(members, LAMBDA m : Len(m) > 0), <<Tok("punct", ",")>>)
            \o <<Tok("punct", "}")>>
        verdicts == {<<Tok("str", "REAL")>>, <<Tok("str", "FAKE")>>, <<Tok("str", "real")>>,
                     <<Tok("lit", "null")>>, <<Tok("num", "85")>>}
        confidences ==
            {<<Tok("num", p[1])>> : p \in IntLiterals \cup FloatLiterals}
            \cup {<<Tok("str", s)>> : s \in {"85", "150", "85%", "85.7"}}
            \cup {<<Tok("lit", l)>> : l \in {"null", "true", "false", "Infinity", "NaN"}}
            \cup {<<Tok("punct", "{"), Tok("punct", "}")>>,
                  <<Tok("punct", "["), Tok("punct", "]")>>, <<Tok("word", "high")>>}
        biases == {<<Tok("str", "Left")>>, <<Tok("str", "Clickbait")>>,
                   <<Tok("str", "Center")>>, <<Tok("lit", "null")>>}
    IN  {object(<<v, c, b, e>>) :
            v \in member("verdict", verdicts),
            c \in member("confidence", confidences),
            b \in member("bias_type", biases),
            e \in member("explanation", {<<Tok("str", "why")>>})}

\* the texts the model can reply: an object alone, after a word of prose, or
\* before prose that holds a closing brace; an object with a field twice,
\* with a trailing comma, without its closing brace; prose alone; nothing
Replies ==
    LET start == <<Tok("punct", "{"), Tok("str", "verdict"), Tok("punct", ":"),
                   Tok("str", "REAL")>>
        comma == <<Tok("punct", ",")>>
        twice == <<Tok("str", "confidence"), Tok("punct", ":"), Tok("num", "150")>> \o comma
                 \o <<Tok("str", "bias_type"), Tok("punct", ":"), Tok("str", "Left")>> \o comma
                 \o <<Tok("str", "explanation"), Tok("punct", ":"), Tok("str", "why")>> \o comma
                 \o <<Tok("str", "confidence"), Tok("punct", ":"), Tok("num", "-1")>>
    IN  Objects
        \cup {<<Tok("word", "Sure")>> \o o : o \in Objects}
        \cup {o \o <<Tok("word", "thanks"), Tok("punct", "}")>> : o \in Objects}
        \cup {start \o comma \o twice \o <<Tok("punct", "}")>>,
              start \o comma \o <<Tok("punct", "}")>>,
              start,
              <<Tok("word", "Sure")>>,
              <<>>}

\* what self.client.chat.completions.create does: it raises, or returns a
\* completion with no choice, or one whose message content is None or a text
ApiOutcomes ==
    {[kind |-> "error", msg |-> m, content |-> NoResult] : m \in ErrorMessages}
    \cup {[kind |-> "no_choice", msg |-> <<>>, content |-> NoResult]}
    \cup {[kind |-> "reply", msg |-> <<>>, content |-> NoResult]}
    \cup {[kind |-> "reply", msg |-> <<>>, content |-> [text |-> r]] : r \in Replies}

\* analyze_article(article_text) of an analyzer, given what the API does if
\* it is called: the value returned and the number of API calls made
analyze_article(article_text, api) ==
    LET parsed_result == parse_analysis_response(api.content)
        body == IF api.kind = "error" THEN Raise("APIError", api.msg)
                ELSE IF api.kind = "no_choice"
                THEN Raise("IndexError", <<"list index out of range">>)
                ELSE Returned(Analysed(IF parsed_result # NoResult THEN parsed_result
                                       ELSE FallbackResult))
    IN  IF TooShort(article_text)
        THEN [ret |-> Returned(Failed(<<"Article text is too short for analysis">>)),
              api_calls |-> 0]
        ELSE [ret |-> IF body.exc THEN Returned(Failed(ApiErrorMessage(body.msg))) ELSE body,
              api_calls |-> 1]

\* The process environment of GroqAnalyzer(): the variable GROQ_API_KEY (None
\* when unset), the file .env (absent, unreadable, or its lines), and whether
\* Groq(api_key=...) raises. Keys and lines are sequences of words.
GroqEnvs ==
    LET key_line(value) == <<"GROQ_API_KEY=">> \o value
        files == {<<>>,
                  <<<<"OTHER=", "x">>>>,
                  <<<<"OTHER=", "x">>, <<" ">> \o key_line(<<"gsk_file">>) \o <<"\n">>>>,
                  <<key_line(<<>>) \o <<"\n">>, key_line(<<"gsk_file">>)>>}
    IN  [getenv : {None, <<>>, <<"gsk_env">>},
         dotenv : {[state |-> "absent", lines |-> <<>>],
                   [state |-> "unreadable", lines |-> <<>>]}
                  \cup {[state |-> "file", lines |-> f] : f \in files},
         client : {Returned(NoResult), Raise("GroqError", <<>>),
                   Raise("GroqError", <<"bad", "key">>)}]

\* the key the loop of lines 19-22 finds: the value of the first line that,
\* stripped, starts with GROQ_API_KEY=; none leaves the key as it was
RECURSIVE KeyOfLines(_, _)
KeyOfLines(lines, api_key) ==
    IF lines = <<>> THEN api_key
    ELSE LET line == Strip(Head(lines))
         IN  IF StartsWith(line, <<"GROQ_API_KEY=">>) THEN Tail(line)
             ELSE KeyOfLines(Tail(lines), api_key)

\* GroqAnalyzer.__init__: the analyzer, or the exception raised
GroqAnalyzer(env) ==
    LET falsy(key) == key = None \/ key = <<>>
    IN  IF falsy(env.getenv) /\ env.dotenv.state = "unreadable"
        THEN Raise("OSError", <<"Permission denied: '.env'">>)
        ELSE LET api_key == IF falsy(env.getenv) /\ env.dotenv.state = "file"
                            THEN KeyOfLines(env.dotenv.lines, env.getenv)
                            ELSE env.getenv
             IN  IF falsy(api_key)
                 THEN Raise("ValueError", <<"GROQ_API_KEY not found. Please ensure it is defined">>)
                 ELSE IF env.client.exc
                 THEN Raise("ValueError",
                            <<"Failed to initialize Groq client: ">> \o env.client.msg)
                 ELSE Returned([api_key |-> api_key])

\* the try block of analyze_article_with_groq left without its except clauses
analyze_article_with_groq_no_except(body) == body

\* analyze_article_with_groq, lines 218-233: what the try block did, a
\* ValueError and any other exception turned into a returned dict
analyze_article_with_groq(body) ==
    IF ~body.exc THEN body
    ELSE IF body.etype = "ValueError" THEN Returned(Failed(body.msg))
    ELSE Returned(Failed(<<"Unexpected error initializing analyzer: ">> \o body.msg))

\* article texts: None, the empty text, and texts of trimmed length around
\* MinArticleLen with up to MaxPad whitespace characters on each side
GroqTexts ==
    {None}
    \cup {Rep(<<" ">>, k) \o Rep(<<"a">>, n) \o Rep(<<"\n">>, k) :
            n \in {0, MinArticleLen - 1, MinArticleLen, MinArticleLen + 1}, k \in 0..MaxPad}

\* an article text comes in; the other variables of the call are idle
GroqInit ==
    /\ CallIdle /\ TextIdle /\ ConcIdle /\ ScoreIdle /\ UiIdle
    /\ g_pc = "idle"
    /\ g_text \in GroqTexts
    /\ g_init = NoResult
    /\ g_api = NoResult
    /\ g_ret = NoResult
    /\ g_api_calls = 0

\* analyze_article_with_groq(g_text), line 219: analyzer = GroqAnalyzer()
GroqConstruct ==
    /\ g_pc = "idle"
    /\ \E env \in GroqEnvs :
        LET init == GroqAnalyzer(env)
        IN  /\ g_init' = init
            /\ IF init.exc
               THEN g_pc' = "done" /\ g_ret' = analyze_article_with_groq(init)
               ELSE g_pc' = "analyze" /\ g_ret' = g_ret
    /\ UNCHANGED <<g_text, g_api, g_api_calls, call_vars, text_vars, conc_vars, score_vars, ui_vars>>

\* analyze_article_with_groq(g_text), line 220: analyzer.analyze_article
GroqAnalyze ==
    /\ g_pc = "analyze"
    /\ \E api \in ApiOutcomes :
        LET done == analyze_article(g_text, api)
        IN  /\ g_ret' = analyze_article_with_groq(done.ret)
            /\ g_api_calls' = done.api_calls
            /\ g_api' = IF done.api_calls = 0 THEN NoResult ELSE api
    /\ g_pc' = "done"
    /\ UNCHANGED <<g_text, g_init, call_vars, text_vars, conc_vars, score_vars, ui_vars>>

GroqNext == GroqConstruct \/ GroqAnalyze

GroqSpec == GroqInit /\ [][GroqNext]_vars

(***************************************************************************)
(* domain_credibility.py. A host name and a listed domain are sequences of *)
(* characters; a URL is "https", ":", "//", the characters of the host and *)
(* a path token, so that urlparse above finds the host as the netloc.      *)
(***************************************************************************)
\* the five reputation sets of DomainCredibility.__init__
reputation ==
    [high_credibility |->
        {<<"r", "e", "u", "t", "e", "r", "s", ".", "c", "o", "m">>,
         <<"a", "p", "n", "e", "w", "s", ".", "c", "o", "m">>,
         <<"b", "b", "c", ".", "c", "o", "m">>,
         <<"b", "b", "c", ".", "c", "o", ".", "u", "k">>,
         <<"n", "p", "r", ".", "o", "r", "g">>,
         <<"p", "b", "s", ".", "o", "r", "g">>,
         <<"p", "r", "o", "p", "u", "b", "l", "i", "c", "a", ".", "o", "r", "g">>,
         <<"r", "e", "u", "t", "e", "r", "s", ".", "c", "o", ".", "u", "k">>,
         <<"t", "h", "e", "g", "u", "a", "r", "d", "i", "a", "n", ".", "c", "o", "m">>,
         <<"e", "c", "o", "n", "o", "m", "i", "s", "t", ".", "c", "o", "m">>,
         <<"w", "s", "j", ".", "c", "o", "m">>,
         <<"f", "t", ".", "c", "o", "m">>,
         <<"n", "a", "t", "u", "r", "e", ".", "c", "o", "m">>,
         <<"s", "c", "i", "e", "n", "c", "e", ".", "o", "r", "g">>,
         <<"s", "c", "i", "e", "n", "c", "e", "m", "a", "g", ".", "o", "r", "g">>,
         <<"c", "e", "l", "l", ".", "c", "o", "m">>,
         <<"t", "h", "e", "l", "a", "n", "c", "e", "t", ".", "c", "o", "m">>,
         <<"n", "e", "j", "m", ".", "o", "r", "g">>,
         <<"w", "h", "o", ".", "i", "n", "t">>,
         <<"c", "d", "c", ".", "g", "o", "v">>,
         <<"g", "o", "v", ".", "u", "k">>,
         <<"u", "s", "a", ".", "g", "o", "v">>,
         <<"e", "u", "r", "o", "p", "a", ".", "e", "u">>,
         <<"t", "h", "e", "h", "i", "n", "d", "u", ".", "c", "o", "m">>,
         <<"i", "n", "d", "i", "a", "n", "e", "x", "p", "r", "e", "s", "s", ".", "c", "o", "m">>,
         <<"h", "i", "n", "d", "u", "s", "t", "a", "n", "t", "i", "m", "e", "s", ".", "c", "o", "m">>,
         <<"b", "u", "s", "i", "n", "e", "s", "s", "-", "s", "t", "a", "n", "d", "a", "r", "d", ".", "c", "o", "m">>,
         <<"l", "i", "v", "e", "m", "i", "n", "t", ".", "c", "o", "m">>,
         <<"n", "d", "t", "v", ".", "c", "o", "m">>,
         <<"s", "c", "r", "o", "l", "l", ".", "i", "n">>,
         <<"t", "h", "e", "p", "r", "i", "n", "t", ".", "i", "n">>,
         <<"m", "o", "n", "e", "y", "c", "o", "n", "t", "r", "o", "l", ".", "c", "o", "m">>,
         <<"n", "e", "w", "i", "n", "d", "i", "a", "n", "e", "x", "p", "r", "e", "s", "s", ".", "c", "o", "m">>},
     good_credibility |->
        {<<"n", "y", "t", "i", "m", "e", "s", ".", "c", "o", "m">>,
         <<"w", "a", "s", "h", "i", "n", "g", "t", "o", "n", "p", "o", "s", "t", ".", "c", "o", "m">>,
         <<"l", "a", "t", "i", "m", "e", "s", ".", "c", "o", "m">>,
         <<"u", "s", "a", "t", "o", "d", "a", "y", ".", "c", "o", "m">>,
         <<"t", "i", "m", "e", ".", "c", "o", "m">>,
         <<"n", "e", "w", "s", "w", "e", "e", "k", ".", "c", "o", "m">>,
         <<"t", "h", "e", "a", "t", "l", "a", "n", "t", "i", "c", ".", "c", "o", "m">>,
         <<"p", "o", "l", "i", "t", "i", "c", "o", ".", "c", "o", "m">>,
         <<"a", "x", "i", "o", "s", ".", "c", "o", "m">>,
         <<"b", "l", "o", "o", "m", "b", "e", "r", "g", ".", "c", "o", "m">>,
         <<"c", "n", "b", "c", ".", "c", "o", "m">>,
         <<"f", "o", "r", "b", "e", "s", ".", "c", "o", "m">>,
         <<"t", "e", "c", "h", "c", "r", "u", "n", "c", "h", ".", "c", "o", "m">>,
         <<"w", "i", "r", "e", "d", ".", "c", "o", "m">>,
         <<"a", "r", "s", "t", "e", "c", "h", "n", "i", "c", "a", ".", "c", "o", "m">>,
         <<"s", "c", "i", "e", "n", "t", "i", "f", "i", "c", "a", "m", "e", "r", "i", "c", "a", "n", ".", "c", "o", "m">>,
         <<"n", "a", "t", "i", "o", "n", "a", "l", "g", "e", "o", "g", "r", "a", "p", "h", "i", "c", ".", "c", "o", "m">>,
         <<"s", "m", "i", "t", "h", "s", "o", "n", "i", "a", "n", "m", "a", "g", ".", "c", "o", "m">>,
         <<"h", "i", "s", "t", "o", "r", "y", ".", "c", "o", "m">>,
         <<"n", "e", "w", "s", "1", "8", ".", "c", "o", "m">>,
         <<"i", "n", "d", "i", "a", "t", "o", "d", "a", "y", ".", "i", "n">>,
         <<"d", "n", "a", "i", "n", "d", "i", "a", ".", "c", "o", "m">>,
         <<"d", "e", "c", "c", "a", "n", "h", "e", "r", "a", "l", "d", ".", "c", "o", "m">>,
         <<"t", "i", "m", "e", "s", "o", "f", "i", "n", "d", "i", "a", ".", "i", "n", "d", "i", "a", "t", "i", "m", "e", "s", ".", "c", "o", "m">>,
         <<"f", "i", "r", "s", "t", "p", "o", "s", "t", ".", "c", "o", "m">>,
         <<"b", "u", "s", "i", "n", "e", "s", "s", "l", "i", "n", "e", ".", "i", "n">>,
         <<"o", "u", "t", "l", "o", "o", "k", "i", "n", "d", "i", "a", ".", "c", "o", "m">>,
         <<"t", "h", "e", "w", "e", "e", "k", ".", "i", "n">>,
         <<"r", "e", "p", "u", "b", "l", "i", "c", "w", "o", "r", "l", "d", ".", "c", "o", "m">>},
     moderate_credibility |->
        {<<"c", "n", "n", ".", "c", "o", "m">>,
         <<"f", "o", "x", "n", "e", "w", "s", ".", "c", "o", "m">>,
         <<"m", "s", "n", "b", "c", ".", "c", "o", "m">>,
         <<"c", "b", "s", "n", "e", "w", "s", ".", "c", "o", "m">>,
         <<"a", "b", "c", "n", "e", "w", "s", ".", "g", "o", ".", "c", "o", "m">>,
         <<"n", "b", "c", "n", "e", "w", "s", ".", "c", "o", "m">>,
         <<"h", "u", "f", "f", "p", "o", "s", "t", ".", "c", "o", "m">>,
         <<"v", "i", "c", "e", ".", "c", "o", "m">>,
         <<"b", "u", "z", "z", "f", "e", "e", "d", "n", "e", "w", "s", ".", "c", "o", "m">>,
         <<"v", "o", "x", ".", "c", "o", "m">>,
         <<"s", "l", "a", "t", "e", ".", "c", "o", "m">>,
         <<"s", "a", "l", "o", "n", ".", "c", "o", "m">>,
         <<"d", "a", "i", "l", "y", "b", "e", "a", "s", "t", ".", "c", "o", "m">>,
         <<"t", "h", "e", "h", "i", "l", "l", ".", "c", "o", "m">>,
         <<"n", "e", "w", "s", "m", "a", "x", ".", "c", "o", "m">>,
         <<"t", "h", "e", "f", "e", "d", "e", "r", "a", "l", "i", "s", "t", ".", "c", "o", "m">>,
         <<"m", "o", "t", "h", "e", "r", "j", "o", "n", "e", "s", ".", "c", "o", "m">>,
         <<"j", "a", "c", "o", "b", "i", "n", "m", "a", "g", ".", "c", "o", "m">>,
         <<"r", "e", "a", "s", "o", "n", ".", "c", "o", "m">>,
         <<"z", "e", "e", "5", ".", "c", "o", "m">>,
         <<"z", "e", "e", "n", "e", "w", "s", ".", "i", "n", "d", "i", "a", ".", "c", "o", "m">>,
         <<"w", "i", "o", "n", "e", "w", "s", ".", "c", "o", "m">>,
         <<"o", "p", "i", "n", "d", "i", "a", ".", "c", "o", "m">>,
         <<"s", "w", "a", "r", "a", "j", "y", "a", "m", "a", "g", ".", "c", "o", "m">>,
         <<"o", "n", "e", "i", "n", "d", "i", "a", ".", "c", "o", "m">>,
         <<"f", "r", "e", "e", "p", "r", "e", "s", "s", "j", "o", "u", "r", "n", "a", "l", ".", "i", "n">>,
         <<"a", "s", "i", "a", "n", "e", "t", "n", "e", "w", "s", ".", "c", "o", "m">>,
         <<"i", "n", "d", "i", "a", "t", "v", "n", "e", "w", "s", ".", "c", "o", "m">>,
         <<"n", "a", "v", "b", "h", "a", "r", "a", "t", "t", "i", "m", "e", "s", ".", "i", "n", "d", "i", "a", "t", "i", "m", "e", "s", ".", "c", "o", "m">>},
     low_credibility |->
        {<<"b", "r", "e", "i", "t", "b", "a", "r", "t", ".", "c", "o", "m">>,
         <<"i", "n", "f", "o", "w", "a", "r", "s", ".", "c", "o", "m">>,
         <<"n", "a", "t", "u", "r", "a", "l", "n", "e", "w", "s", ".", "c", "o", "m">>,
         <<"b", "e", "f", "o", "r", "e", "i", "t", "s", "n", "e", "w", "s", ".", "c", "o", "m">>,
         <<"y", "o", "u", "r", "n", "e", "w", "s", "w", "i", "r", "e", ".", "c", "o", "m">>,
         <<"n", "e", "o", "n", "n", "e", "t", "t", "l", "e", ".", "c", "o", "m">>,
         <<"t", "r", "u", "t", "h", "f", "e", "e", "d", ".", "c", "o", "m">>,
         <<"b", "i", "g", "l", "e", "a", "g", "u", "e", "p", "o", "l", "i", "t", "i", "c", "s", ".", "c", "o", "m">>,
         <<"t", "h", "e", "g", "a", "t", "e", "w", "a", "y", "p", "u", "n", "d", "i", "t", ".", "c", "o", "m">>,
         <<"o", "c", "c", "u", "p", "y", "d", "e", "m", "o", "c", "r", "a", "t", "s", ".", "c", "o", "m">>,
         <<"a", "d", "d", "i", "c", "t", "i", "n", "g", "i", "n", "f", "o", ".", "c", "o", "m">>,
         <<"p", "a", "l", "m", "e", "r", "r", "e", "p", "o", "r", "t", ".", "c", "o", "m">>,
         <<"f", "r", "e", "e", "d", "o", "m", "d", "a", "i", "l", "y", ".", "c", "o", "m">>,
         <<"c", "o", "n", "s", "e", "r", "v", "a", "t", "i", "v", "e", "t", "r", "i", "b", "u", "n", "e", ".", "c", "o", "m">>,
         <<"w", "e", "s", "t", "e", "r", "n", "j", "o", "u", "r", "n", "a", "l", ".", "c", "o", "m">>,
         <<"p", "o", "l", "i", "t", "i", "c", "u", "s", "u", "s", "a", ".", "c", "o", "m">>,
         <<"r", "a", "w", "s", "t", "o", "r", "y", ".", "c", "o", "m">>,
         <<"a", "l", "t", "e", "r", "n", "e", "t", ".", "o", "r", "g">>,
         <<"p", "o", "s", "t", "c", "a", "r", "d", ".", "n", "e", "w", "s">>,
         <<"n", "e", "w", "s", "d", ".", "i", "n">>,
         <<"t", "i", "m", "e", "s", "n", "o", "w", "n", "e", "w", "s", ".", "c", "o", "m">>,
         <<"p", "u", "n", "j", "a", "b", "k", "e", "s", "a", "r", "i", ".", "i", "n">>,
         <<"a", "b", "p", "l", "i", "v", "e", ".", "c", "o", "m">>,
         <<"d", "a", "i", "l", "y", "o", ".", "i", "n">>,
         <<"j", "a", "n", "m", "a", "b", "h", "u", "m", "i", ".", "i", "n">>,
         <<"t", "f", "i", "p", "o", "s", "t", ".", "c", "o", "m">>,
         <<"k", "r", "e", "a", "t", "e", "l", "y", ".", "i", "n">>,
         <<"i", "n", "d", "i", "a", "v", "o", "i", "c", "e", ".", "c", "o", "m">>},
     fake_satire |->
        {<<"t", "h", "e", "o", "n", "i", "o", "n", ".", "c", "o", "m">>,
         <<"c", "l", "i", "c", "k", "h", "o", "l", "e", ".", "c", "o", "m">>,
         <<"b", "a", "b", "y", "l", "o", "n", "b", "e", "e", ".", "c", "o", "m">>,
         <<"t", "h", "e", "b", "e", "a", "v", "e", "r", "t", "o", "n", ".", "c", "o", "m">>,
         <<"p", "r", "i", "v", "a", "t", "e", "e", "y", "e", ".", "c", "o", ".", "u", "k">>,
         <<"n", "e", "w", "s", "t", "h", "u", "m", "p", ".", "c", "o", "m">>,
         <<"w", "o", "r", "l", "d", "n", "e", "w", "s", "d", "a", "i", "l", "y", "r", "e", "p", "o", "r", "t", ".", "c", "o", "m">>,
         <<"n", "a", "t", "i", "o", "n", "a", "l", "r", "e", "p", "o", "r", "t", ".", "n", "e", "t">>,
         <<"e", "m", "p", "i", "r", "e", "n", "e", "w", "s", ".", "n", "e", "t">>,
         <<"h", "u", "z", "l", "e", "r", "s", ".", "c", "o", "m">>,
         <<"r", "e", "d", "u", "c", "t", "r", "e", "s", "s", ".", "c", "o", "m">>,
         <<"t", "h", "e", "f", "a", "u", "x", "y", ".", "c", "o", "m">>}]

trusted_tlds ==
    {<<".", "g", "o", "v">>,
     <<".", "e", "d", "u">>,
     <<".", "a", "c", ".", "u", "k">>,
     <<".", "a", "c", ".", "i", "n">>,
     <<".", "n", "i", "c", ".", "i", "n">>}

\* a.endswith(s) and s in a, on character sequences
EndsWith(a, s) == Len(a) >= Len(s) /\ SubSeq(a, Len(a) - Len(s) + 1, Len(a)) = s
Contains(a, s) == \E i \in 1..(Len(a) - Len(s) + 1) : SubSeq(a, i, i + Len(s) - 1) = s

\* text.lower(), for the upper-case letters the sample hosts use
RECURSIVE Lower(_)
Lower(a) ==
    LET upper == {<<"M", "m">>, <<"I", "i">>, <<"T", "t">>, <<"E", "e">>, <<"D", "d">>,
                  <<"U", "u">>}
    IN  IF a = <<>> THEN <<>>
        ELSE <<IF IsIn(upper, Head(a)) THEN Lookup(upper, Head(a)) ELSE Head(a)>>
             \o Lower(Tail(a))

\* extract_domain(url): the netloc in lower case, without a leading "www.",
\* cut to its last two labels when it has more than two; None when urlparse
\* raises. '.'.join(domain.split('.')[-2:]) is what follows the last dot
\* but one. Each intermediate value is computed once, by binding it.
extract_domain(u) ==
    LET unprefixed(netloc) ==
            IF StartsWith(netloc, <<"w", "w", "w", ".">>)
            THEN SubSeq(netloc, 5, Len(netloc)) ELSE netloc
        joined(domain) ==
            LET dots == {i \in 1..Len(domain) : domain[i] = "."}
                last == CHOOSE i \in dots : \A j \in dots : j <= i
                cut == CHOOSE i \in dots \ {last} : \A j \in dots \ {last} : j <= i
            IN  IF Cardinality(dots) + 1 > 2 THEN SubSeq(domain, cut + 1, Len(domain))
                ELSE domain
    IN  IF UrlParseRaises(u) THEN None
        ELSE CHOOSE domain \in
                 {joined(d) : d \in {unprefixed(n) : n \in {Lower(UrlNetloc(u))}}} : TRUE

\* check_suspicious_patterns(domain): re.search, ignoring case, of \d{2,},
\* of (-real|-true|-facts?|-news24|-breaking) and of (fake|hoax|satire|parody)
check_suspicious_patterns(domain) ==
    LET digits == {"0", "1", "2", "3", "4", "5", "6", "7", "8", "9"}
    IN  \/ \E i \in 1..(Len(domain) - 1) : domain[i] \in digits /\ domain[i + 1] \in digits
        \/ \E lowered \in {Lower(domain)} :
           \E word \in {<<"-", "r", "e", "a", "l">>, <<"-", "t", "r", "u", "e">>,
                        <<"-", "f", "a", "c", "t">>,
                        <<"-", "n", "e", "w", "s", "2", "4">>,
                        <<"-", "b", "r", "e", "a", "k", "i", "n", "g">>,
                        <<"f", "a", "k", "e">>, <<"h", "o", "a", "x">>,
                        <<"s", "a", "t", "i", "r", "e">>,
                        <<"p", "a", "r", "o", "d", "y">>} : Contains(lowered, word)

\* check_trusted_tld(domain)
check_trusted_tld(domain) == \E tld \in trusted_tlds : EndsWith(domain, tld)

\* calculate_domain_score(url): the score and the category of the dict
calculate_domain_score(u) ==
    LET scored(score, category) == [score |-> score, category |-> category]
        score_of(domain) ==
            IF domain = None \/ domain = <<>> THEN scored(50, "Unknown")
            ELSE IF domain \in reputation.fake_satire THEN scored(10, "Satire/Fake")
            ELSE IF check_suspicious_patterns(domain) THEN scored(25, "Suspicious")
            ELSE IF check_trusted_tld(domain) THEN scored(95, "Highly Trusted")
            ELSE IF domain \in reputation.high_credibility THEN scored(95, "Highly Credible")
            ELSE IF domain \in reputation.good_credibility THEN scored(80, "Good")
            ELSE IF domain \in reputation.moderate_credibility THEN scored(60, "Moderate")
            ELSE IF domain \in reputation.low_credibility THEN scored(30, "Low Credibility")
            ELSE scored(50, "Unknown")
    IN  CHOOSE credibility \in {score_of(domain) : domain \in {extract_domain(u)}} : TRUE

\* hosts that are in no reputation set: government and academic hosts,
\* hosts with a suspicious name, and a host nothing is known about
OtherHosts ==
    {<<"n", "a", "s", "a", ".", "g", "o", "v">>,
     <<"w", "w", "w", ".", "m", "i", "t", ".", "e", "d", "u">>,
     <<"M", "I", "T", ".", "E", "D", "U">>,
     <<"c", "s", ".", "m", "i", "t", ".", "e", "d", "u">>,
     <<"w", "w", "w", ".", "o", "x", ".", "a", "c", ".", "u", "k">>,
     <<"i", "i", "t", "b", ".", "a", "c", ".", "i", "n">>,
     <<"u", "i", "d", "a", "i", ".", "n", "i", "c", ".", "i", "n">>,
     <<"n", "e", "w", "s", "2", "4", ".", "g", "o", "v">>,
     <<"t", "h", "e", "-", "r", "e", "a", "l", ".", "e", "d", "u">>,
     <<"f", "a", "k", "e", ".", "c", "o", "m">>,
     <<"b", "l", "o", "g", ".", "c", "o", "m">>}

\* the urls scored: https://host/article for every listed domain, with and
\* without www., and for the other hosts; a url without a scheme, a url on
\* which urlparse raises, and the empty url
ScoreUrls ==
    LET listed == UNION {reputation[s] : s \in DOMAIN reputation}
        hosts == listed \cup {<<"w", "w", "w", ".">> \o h : h \in listed} \cup OtherHosts
    IN  {<<"https", ":", "//">> \o h \o <<"/article">> : h \in hosts}
        \cup {<<"b", "b", "c", ".", "c", "o", "m", "/article">>,
              <<"https", ":", "//", "[", "/article">>,
              <<>>}

ScoreInit ==
    /\ CallIdle /\ TextIdle /\ ConcIdle /\ GroqIdle /\ UiIdle
    /\ dc_url \in ScoreUrls
    /\ dc_result = NoResult

\* DomainCredibility().calculate_domain_score(dc_url)
CalculateDomainScore ==
    /\ dc_result = NoResult
    /\ dc_result' = calculate_domain_score(dc_url)
    /\ UNCHANGED <<dc_url, call_vars, text_vars, conc_vars, groq_vars, ui_vars>>

ScoreSpec == ScoreInit /\ [][CalculateDomainScore]_vars

(***************************************************************************)
(* app.py, the single-article mode of main(). Every interaction of the     *)
(* user reruns the script once; an action is one such run. Buttons are     *)
(* taken as clickable whenever the code's condition to draw them holds.    *)
(***************************************************************************)
\* the urls the user enters, both with a host calculate_domain_score knows
UiUrls ==
    {<<"https", ":", "//">> \o h \o <<"/article">> :
        h \in {<<"b", "b", "c", ".", "c", "o", "m">>, <<"b", "l", "o", "g", ".", "c", "o", "m">>}}

\* the text of the article a url holds, one letter per site
ArticleText(u) ==
    IF u[4] = "b" /\ u[5] = "b" THEN Rep(<<"a">>, MinArticleLen)
    ELSE Rep(<<"b">>, MinArticleLen + 1)

\* what extract_article_content(u) can do: raise, fail, or return the article
Extractions(u) ==
    {Raised, Returned(Failure(ExhaustedError)),
     Returned(Success([content |-> ArticleText(u), title |-> Title]))}

\* what the user types into the text area: nothing, a text too short to be
\* analysed, a text long enough
PastedTexts == {<<>>, Rep(<<"p">>, MinArticleLen - 1), Rep(<<"p">>, MinArticleLen)}

\* generate_article_hash(text): md5 keeps apart the texts of the model
generate_article_hash(text) == [md5 |-> text]

\* the session without comparison mode: the database is None or has rows
UiInit ==
    /\ CallIdle /\ TextIdle /\ ConcIdle /\ GroqIdle /\ ScoreIdle
    /\ ss \in {InitialSession(NoResult), InitialSession([rows |-> <<>>])}
    /\ input_method = "paste"
    /\ shown = "nothing"

\* the radio button is moved to method m; the run stores nothing new
SelectMethod(m) ==
    /\ input_method # m
    /\ input_method' = m
    /\ shown' = "nothing"
    /\ UNCHANGED <<ss, call_vars, text_vars, conc_vars, groq_vars, score_vars>>

\* the text area is edited to t: lines 375-381 and 426-427
Paste(t) ==
    /\ input_method = "paste"
    /\ ss' = IF t # <<>> THEN [ss EXCEPT !.article_text = t] ELSE ss
    /\ shown' = "nothing"
    /\ UNCHANGED <<input_method, call_vars, text_vars, conc_vars, groq_vars, score_vars>>

\* the session set before the extraction result is looked at
AfterExtract_assign_first(state, u, extraction) ==
    [state EXCEPT !.current_url = u,
                  !.article_text = IF ~extraction.exc /\ extraction.value.success
                                   THEN extraction.value.content ELSE @]

\* the session after the Extract Article run on url u, lines 389-427
AfterExtract(state, u, extraction) ==
    IF extraction.exc THEN state
    ELSE IF ~extraction.value.success THEN state
    ELSE [state EXCEPT !.current_url = u,
                       !.article_title = extraction.value.title,
                       !.domain_credibility = calculate_domain_score(u),
                       !.article_text = IF extraction.value.content # <<>>
                                        THEN extraction.value.content ELSE @]

\* the user enters url u and clicks Extract Article
Extract(u) ==
    /\ input_method = "url"
    /\ \E extraction \in Extractions(u) :
        /\ ss' = AfterExtract(ss, u, extraction)
        /\ shown' = IF extraction.exc THEN "Error extracting article"
                    ELSE IF ~extraction.value.success THEN "Failed to extract article"
                    ELSE "Successfully extracted article"
    /\ UNCHANGED <<input_method, call_vars, text_vars, conc_vars, groq_vars, score_vars>>

\* the user clicks Analyze Article, lines 430-501; the analysis fails or
\* gives a result, and save_analysis inserts the row or raises
Analyse ==
    /\ ss.article_text # <<>>
    /\ ss.db # NoResult => Len(ss.db.rows) < MaxSaved
    /\ \E analysis_result \in {Failed(<<"Rate limit exceeded.">>), Analysed(FallbackResult)},
          inserted \in BOOLEAN :
        LET final_result == analysis_result.result
            row == [url |-> ss.current_url,
                    title |-> IF ss.article_title # <<>> THEN ss.article_title
                              ELSE <<"Pasted Article">>,
                    verdict |-> final_result.verdict,
                    confidence |-> final_result.confidence,
                    bias_type |-> final_result.bias_type,
                    domain_score |-> IF ss.domain_credibility # NoResult
                                     THEN [score |-> ss.domain_credibility.score]
                                     ELSE NoResult,
                    article_hash |-> generate_article_hash(ss.article_text)]
        IN  IF Len(Strip(ss.article_text)) < MinArticleLen
            THEN ss' = ss /\ shown' = "Please provide a longer article"
            ELSE IF ~analysis_result.success
            THEN ss' = ss /\ shown' = "Analysis failed"
            ELSE /\ shown' = "Analysis complete"
                 /\ ss' = [ss EXCEPT !.analysis_result = final_result,
                                     !.db = IF ss.db # NoResult /\ inserted
                                            THEN [rows |-> Append(ss.db.rows, row)] ELSE @]
    /\ UNCHANGED <<input_method, call_vars, text_vars, conc_vars, groq_vars, score_vars>>

\* Clear Results that leaves the url and the credibility of the last article
AfterClear_keep_source(state) ==
    [state EXCEPT !.analysis_result = NoResult,
                  !.article_text = <<>>,
                  !.article_title = <<>>,
                  !.input_key = @ + 1]

\* the session after the Clear Results run, lines 661-667
AfterClear(state) ==
    [state EXCEPT !.analysis_result = NoResult,
                  !.article_text = <<>>,
                  !.current_url = None,
                  !.article_title = <<>>,
                  !.domain_credibility = NoResult,
                  !.input_key = @ + 1]

\* the user clicks Clear Results, drawn while a result is stored; st.rerun()
\* then runs the script on the cleared session, which stores nothing
Clear ==
    /\ ss.analysis_result # NoResult
    /\ ss.input_key < MaxClears
    /\ ss' = AfterClear(ss)
    /\ shown' = "cleared"
    /\ UNCHANGED <<input_method, call_vars, text_vars, conc_vars, groq_vars, score_vars>>

UiNext ==
    \/ \E m \in {"paste", "url"} : SelectMethod(m)
    \/ \E t \in PastedTexts : Paste(t)
    \/ \E u \in UiUrls : Extract(u)
    \/ Analyse
    \/ Clear

UiSpec == UiInit /\ [][UiNext]_vars

(***************************************************************************)
(* Vocabulary of the properties.                                           *)
(***************************************************************************)
\* the cascade order the specification fixes: readability, structural,
\* article-object, rendered
CascadeOrder ==
    <<"scrape_with_trafilatura", "scrape_with_beautifulsoup",
      "scrape_with_newspaper", "scrape_with_playwright">>

\* the k-th extractor call of the current call returned null
ReturnedNull(k) == calls[k].content = None

\* len(text.strip()); a text with no whitespace at either end is its own trim
TrimLen(text) ==
    IF text = <<>> \/ (text[1] \notin Whitespace /\ text[Len(text)] \notin Whitespace)
    THEN Len(text)
    ELSE Len(Strip(text))

\* trimmed length of the content returned by the k-th extractor call
TrimmedLen(k) == TrimLen(calls[k].content)

\* the k-th extractor call returned content of trimmed length > 50
ReturnedLong(k) == ~ReturnedNull(k) /\ TrimmedLen(k) > 50

\* the k-th extractor call returned content of trimmed length in (20, 50]
ReturnedBorderline(k) == ~ReturnedNull(k) /\ TrimmedLen(k) > 20 /\ TrimmedLen(k) <= 50

\* the k-th call is the only one of the four that returned content
OnlyContent(k) ==
    /\ Len(calls) = 4
    /\ k \in 1..4
    /\ ~ReturnedNull(k)
    /\ \A j \in (1..4) \ {k} : ReturnedNull(j)

\* inputs the validation must reject: no scheme, no host (the empty string
\* has neither), or a host that cannot be parsed
Malformed(u) ==
    LET netloc == UrlNetloc(u) IN
    UrlScheme(u) = <<>> \/ netloc = <<>> \/ \E k \in 1..Len(netloc) : netloc[k] = "["

\* the call has returned (or raised)
Ended == pc \in {"done", "raised"}

(***************************************************************************)
(* C1..C10: validation, cascade order, thresholds, outcome shape.          *)
(***************************************************************************)
\* C1: a call whose input is malformed (empty, no scheme, no host) ends at
\* once in the failure "Invalid URL format", and no extractor is invoked
\* during that call.
C1_InvalidUrlRejectedWithoutAttempt ==
    (pc # "idle" /\ Malformed(input)) =>
        /\ pc = "done"
        /\ outcome.success = FALSE
        /\ outcome.error = "Invalid URL format"
        /\ calls = <<>>

C1_Witness ==
    /\ pc = "done"
    /\ input = <<"example.com", ":", "/article">>
    /\ outcome.error = "Invalid URL format"
    /\ calls = <<>>

\* C2: the input "example.com/article", which has no scheme, is not rejected
\* as an invalid URL, and the first extractor is invoked with
\* "https://example.com/article".
C2_SchemelessInputGetsHttps ==
    (Ended /\ input = <<"example.com", "/article">>) =>
        /\ pc = "done"
        /\ outcome.error # "Invalid URL format"
        /\ calls # <<>>
        /\ calls[1].arg = <<"https", ":", "//", "example.com", "/article">>

\* C3: the extractors are invoked in the fixed cascade order, an extractor is
\* invoked only while no earlier one returned content of trimmed length > 50,
\* and a call with a valid URL leaves the loop only after such a result or
\* after all four extractors.
C3_FixedOrderHaltAtFirstLong ==
    /\ Len(calls) <= 4
    /\ \A k \in 1..Len(calls) : calls[k].method = CascadeOrder[k]
    /\ \A k \in 1..(Len(calls) - 1) : ~ReturnedLong(k)
    /\ (pc = "loop" /\ calls # <<>>) => ~ReturnedLong(Len(calls))
    /\ (pc \in {"after_loop", "done"} /\ ~Malformed(input)) =>
           /\ calls # <<>>
           /\ ReturnedLong(Len(calls)) \/ Len(calls) = 4

C3_Witness ==
    /\ pc = "done"
    /\ Len(calls) = 2
    /\ ~ReturnedNull(1) /\ ~ReturnedLong(1)
    /\ ReturnedLong(2)

\* C4: when some extractor returned content of trimmed length > 50, the
\* outcome is a success whose content is the content of the first such
\* extractor, unchanged, whatever the earlier extractors did.
C4_FirstLongContentIsOutcome ==
    (pc = "done" /\ \E k \in 1..Len(calls) : ReturnedLong(k)) =>
        LET first == CHOOSE k \in 1..Len(calls) :
                         ReturnedLong(k) /\ \A j \in 1..(k - 1) : ~ReturnedLong(j)
        IN /\ outcome.success = TRUE
           /\ outcome.content = calls[first].content

C4_Witness ==
    /\ pc = "done"
    /\ Len(calls) = 2
    /\ calls[1].faulted /\ ReturnedNull(1)
    /\ ReturnedLong(2)
    /\ outcome.success = TRUE
    /\ outcome.content = calls[2].content

\* C5: when all four extractors returned null for a valid URL, the outcome
\* is the failure whose error is the extraction-exhausted message.
C5_AllNullIsExhausted ==
    (pc = "done" /\ Len(calls) = 4 /\ \A k \in 1..4 : ReturnedNull(k)) =>
        /\ outcome.success = FALSE
        /\ outcome.error =
             "Unable to extract readable content. The site may use paywalls or advanced JS."

C5_Witness ==
    /\ pc = "done"
    /\ Len(calls) = 4
    /\ \A k \in 1..4 : ReturnedNull(k)
    /\ \E k \in 1..4 : calls[k].faulted
    /\ \E k \in 1..4 : ~calls[k].faulted
    /\ outcome.success = FALSE

C8_MetadataNeverNull ==
    (pc = "done" /\ outcome.success) =>
        \A key \in {"title", "author", "date", "description"} :
            key \in DOMAIN outcome /\ outcome[key] # None

\* C9: no fault leaves an extractor or the call: an extractor in which a
\* step raised returns null, and the loop goes on to the next extractor.
C9_FaultsAbsorbed ==
    /\ pc # "raised"
    /\ \A k \in 1..Len(calls) :
           calls[k].faulted =>
               /\ ReturnedNull(k)
               /\ (k = Len(calls) /\ k < 4) => (pc = "loop" /\ method_idx = k + 1)
               /\ k < Len(calls) => calls[k + 1].method = CascadeOrder[k + 1]

C9_Witness ==
    /\ pc = "done"
    /\ Len(calls) = 4
    /\ calls[1].faulted /\ calls[4].faulted
    /\ ~calls[2].faulted /\ ~ReturnedNull(2)

\* C10: every outcome has one of two shapes: a success with non-empty
\* content and an empty error, or a failure with a non-empty error and
\* empty content.
C10_OutcomeShapes ==
    pc = "done" =>
        \/ outcome.success = TRUE /\ outcome.content # <<>> /\ outcome.error = ""
        \/ outcome.success = FALSE /\ outcome.content = <<>> /\ outcome.error # ""

C10_Witness ==
    /\ pc = "done"
    /\ outcome.success = TRUE
    /\ outcome.error = ""
    /\ Len(outcome.content) > 50
    /\ Len(calls) = 1

(***************************************************************************)
(* C11..C20: error messages, the browser extractor, resources, clean_text, *)
(* independence of calls, termination.                                     *)
(***************************************************************************)
\* the three extractors that make no browser
StaticStrategies ==
    {"scrape_with_trafilatura", "scrape_with_beautifulsoup", "scrape_with_newspaper"}

\* the k-th extractor call returned content of at most 50 characters
ReturnedShort(k) == ~ReturnedNull(k) /\ Len(calls[k].content) <= 50

\* the first three extractor calls were the three static extractors, and
\* each returned null or content of at most 50 characters
StaticsExhausted ==
    /\ Len(calls) >= 3
    /\ {calls[k].method : k \in 1..3} = StaticStrategies
    /\ \A k \in 1..3 : ReturnedNull(k) \/ ReturnedShort(k)

\* scrape_with_playwright was invoked in the current call
RenderedInvoked == \E k \in 1..Len(calls) : calls[k].method = "scrape_with_playwright"

\* C11: every failure outcome carries exactly one error message, which is
\* one of the two fixed strings, and nothing else besides the success flag
\* and the empty content: no diagnostic of an extractor is in the outcome.
C11_FailureErrorIsFixedString ==
    (pc = "done" /\ outcome.success = FALSE) =>
        /\ DOMAIN outcome = {"success", "error", "content"}
        /\ outcome.error \in
             {"Invalid URL format",
              "Unable to extract readable content. The site may use paywalls or advanced JS."}

C11_Witness ==
    /\ pc = "done"
    /\ outcome.success = FALSE
    /\ Len(calls) = 4
    /\ \A k \in 1..4 : calls[k].faulted
    /\ outcome.error # "Invalid URL format"

\* C12: scrape_with_playwright is invoked in a call if and only if the URL
\* is valid and the three static extractors have each been attempted in that
\* call and returned null or content of at most 50 characters; it is never
\* invoked before a static extractor.
C12_RenderedOnlyAfterStatics ==
    /\ \A k \in 1..Len(calls) :
           calls[k].method = "scrape_with_playwright" =>
               k = 4 /\ StaticsExhausted /\ ~Malformed(input)
    /\ pc \in {"after_loop", "done"} =>
           (RenderedInvoked <=> (StaticsExhausted /\ ~Malformed(input)))

C12_Witness ==
    /\ pc = "done"
    /\ Len(calls) = 4
    /\ calls[4].method = "scrape_with_playwright"
    /\ ReturnedNull(1) /\ ReturnedShort(2) /\ calls[3].faulted
    /\ ReturnedLong(4)

\* C13: whenever scrape_with_playwright has returned, no browser it
\* launched is left open: it was closed by browser.close(), or, when the
\* navigation or the reading of the page raised, ended with the driver on
\* leaving the with block.
C13_LaunchedBrowserClosed ==
    /\ browser # "open"
    /\ (RenderedInvoked /\ ~calls[Len(calls)].faulted) => browser = "closed"
    /\ browser # "none" => RenderedInvoked

C13_Witness ==
    /\ pc = "done"
    /\ RenderedInvoked
    /\ calls[4].faulted
    /\ browser = "stopped"

\* text holds n or more consecutive characters ch
HasRun(text, ch, n) ==
    \E k \in 1..(Len(text) - n + 1) : \A j \in k..(k + n - 1) : text[j] = ch

\* C14: clean_text is idempotent: applied to a text it returned, it returns
\* that text unchanged.
C14_CleanTextIdempotent ==
    \A k \in 2..Len(ct_outputs) : ct_outputs[k] = ct_outputs[k - 1]

C14_Witness ==
    /\ ct_input = <<" ", "a", " ", " ", "a">>
    /\ ct_outputs = << <<"a", " ", "a">>, <<"a", " ", "a">> >>

\* C15: what clean_text returns has no run of three or more newlines, no two
\* consecutive spaces and no whitespace at either end; for the empty text
\* and for None it returns the empty text.
C15_CleanTextOutputShape ==
    \A k \in 1..Len(ct_outputs) :
        LET out == ct_outputs[k] IN
        /\ ~HasRun(out, "\n", 3)
        /\ ~HasRun(out, " ", 2)
        /\ out # <<>> =>
               /\ out[1] \notin {" ", "\n", "\t"}
               /\ out[Len(out)] \notin {" ", "\n", "\t"}
        /\ (ct_input = None \/ ct_input = <<>>) => out = <<>>

C15_Witness ==
    /\ ct_input = <<"a", "\n", "\n", "\n", "a">>
    /\ ct_outputs = << <<"a", "\n", "\n", "a">> >>

\* the extractor result that decides a call made alone, the extractors
\* returning rets in turn: the first over the threshold, else the last
RECURSIVE Deciding(_, _)
Deciding(rets, k) ==
    IF k >= Len(rets) \/ Accepted(rets[k]) THEN rets[k] ELSE Deciding(rets, k + 1)

\* what the call returns when made alone with input u
Alone(u, rets) ==
    IF Malformed(u)
    THEN [success |-> FALSE, error |-> "Invalid URL format", content |-> <<>>]
    ELSE FinalOutcome(Deciding(rets, 1))

\* C16: calls share no mutable state: two calls in progress never use the
\* same scraper, each extractor call of a call is made on its own scraper
\* with its own URL; every call, also one for an input served before, runs
\* the cascade from the first extractor; and whatever the interleaving, the
\* outcome of a call is the one it produces alone from its own input and
\* its own extractor results.
C16_CallsIndependent ==
    \A c \in Callers :
        LET f == frames[c]
            rets == [k \in 1..Len(f.calls) |-> f.calls[k].ret]
        IN /\ \A d \in Callers \ {c} :
                  (f.pc # "idle" /\ frames[d].pc # "idle") => f.scraper # frames[d].scraper
           /\ f.pc # "idle" => f.scraper \in heap
           /\ \A k \in 1..Len(f.calls) :
                  /\ f.calls[k].scraper = f.scraper
                  /\ f.calls[k].arg = f.url
                  /\ f.calls[k].method = CascadeOrder[k]
           /\ (f.pc \in {"after_loop", "done"} /\ ~Malformed(f.input)) =>
                  /\ f.calls # <<>>
                  /\ \A k \in 1..(Len(f.calls) - 1) : ~Accepted(rets[k])
                  /\ Accepted(rets[Len(rets)]) \/ Len(rets) = 4
           /\ f.pc = "done" => f.outcome = Alone(f.input, rets)

\* two calls for one input that was served before, both returning, one with
\* a success and one with a failure
C16_Witness ==
    /\ frames[1].pc = "done" /\ frames[2].pc = "done"
    /\ frames[1].input = frames[2].input
    /\ frames[1].input \in served
    /\ frames[1].outcome.success = TRUE
    /\ frames[2].outcome.success = FALSE
    /\ Len(frames[2].calls) = 4

\* C17: within one call no extractor is invoked more than once, and at most
\* four extractor calls are made.
C17_NoStrategyTwice ==
    /\ Len(calls) <= 4
    /\ \A j \in 1..Len(calls) : \A k \in 1..Len(calls) :
           j # k => calls[j].method # calls[k].method

C17_Witness ==
    /\ pc = "done"
    /\ Len(calls) = 4
    /\ Cardinality({calls[k].method : k \in 1..4}) = 4
    /\ outcome.success = FALSE

\* C18: every call that has entered the loop eventually returns an outcome,
\* each extractor call returning; after the last extractor returned null no
\* other extractor is called and the outcome is the extraction-exhausted
\* failure.
C18_EveryCallReturns ==
    /\ (pc = "loop") ~> (pc = "done" /\ outcome # NoResult)
    /\ []((pc = "done" /\ RenderedInvoked /\ ReturnedNull(Len(calls))) =>
             /\ Len(calls) = 4
             /\ outcome.success = FALSE
             /\ outcome.error =
                  "Unable to extract readable content. The site may use paywalls or advanced JS.")

C18_Witness ==
    /\ pc = "done"
    /\ Len(calls) = 4
    /\ calls[4].faulted /\ ReturnedNull(4)
    /\ outcome.success = FALSE

\* C19: an input that passes validation and has a scheme (ftp://host/x for
\* one) is handed to the extractors unchanged: "https://" is prepended only
\* to an input without scheme.
C19_SchemedInputUnchanged ==
    (~Malformed(input) /\ UrlScheme(input) # <<>>) =>
        \A k \in 1..Len(calls) : calls[k].arg = input

\* C20: when the call returns, the HTTP session made for it is closed.
C20_SessionClosedAtReturn ==
    pc = "done" => session = "closed"

(***************************************************************************)
(* C21, C22: the content the extractors return.                            *)
(***************************************************************************)
\* C21: the content of every non-null extractor result has been through
\* clean_text: clean_text returns it unchanged, its length is its trimmed
\* length, and the tests of its length against 50 and 20 decide as the
\* tests of its trimmed length do.
C21_ReturnedContentIsClean ==
    \A k \in 1..Len(calls) :
        LET content == calls[k].content IN
        content # None =>
            /\ clean_text(content) = content
            /\ Len(content) = Len(Strip(content))
            /\ (Len(content) > 50) <=> (Len(Strip(content)) > 50)
            /\ (Len(content) < 20) <=> (Len(Strip(content)) < 20)

C21_Witness ==
    /\ pc = "done"
    /\ Len(calls) = 4
    /\ \A k \in 1..4 : calls[k].content # None /\ calls[k].content # <<>>
    /\ Len(calls[3].content) = 50
    /\ outcome.success = TRUE

\* C22: a result of at most 50 characters from one of the first three
\* extractors is overwritten by the next extractor's result; a success with
\* content of at most 50 characters carries the result of the last
\* extractor, after all four were attempted.
C22_ShortSuccessOnlyFromLast ==
    /\ \A k \in 1..Len(calls) :
           (k < 4 /\ ReturnedShort(k)) =>
               \/ Len(calls) > k
               \/ pc = "loop" /\ method_idx = k + 1
    /\ (pc = "done" /\ outcome.success = TRUE /\ Len(outcome.content) <= 50) =>
           /\ Len(calls) = 4
           /\ calls[4].method = "scrape_with_playwright"
           /\ result # NoResult
           /\ outcome.content = result.content
           /\ calls[4].content = result.content

C22_Witness ==
    /\ pc = "done"
    /\ outcome.success = TRUE
    /\ Len(calls) = 4
    /\ Len(calls[1].content) = 50
    /\ Len(outcome.content) = 20

\* analyze_article was called and has returned
AnalyzeReturned == g_pc = "done" /\ ~g_init.exc

\* the reply text has no member named field
LacksField(reply, field) ==
    ~\E i \in 1..(Len(reply) - 1) : reply[i] = Tok("str", field) /\ reply[i + 1] = Tok("punct", ":")

\* the API returned a reply that is None, holds no JSON object, or lacks one
\* of the four required fields
Unusable(api) ==
    /\ api.kind = "reply"
    /\ \/ api.content = NoResult
       \/ JsonMatch(api.content.text) = <<>>
       \/ json_loads(JsonMatch(api.content.text)).exc
       \/ \E i \in 1..4 : LacksField(api.content.text, required_fields[i])

\* C23: analyze_article answers every text that is None, empty or of trimmed
\* length below 50 with success false, the too-short error and result None,
\* and makes no API call for it
C23_ShortTextRejectedWithoutCall ==
    (AnalyzeReturned /\ (g_text \in {None, <<>>} \/ Len(Strip(g_text)) < 50)) =>
        /\ g_ret = Returned([success |-> FALSE,
                             error |-> <<"Article text is too short for analysis">>,
                             result |-> NoResult])
        /\ g_api_calls = 0
        /\ g_api = NoResult

C23_Witness ==
    /\ AnalyzeReturned
    /\ Len(g_text) > 50
    /\ Len(Strip(g_text)) = 49
    /\ g_ret.value.success = FALSE
    /\ g_api_calls = 0

\* C24: whenever analyze_article returns success true, the result's verdict is
\* REAL, FAKE or UNKNOWN, its confidence an integer from 0 to 100 and its
\* bias_type one of the six; a reply that cannot be parsed or lacks a
\* required field gives UNKNOWN, 50, Neutral
C24_ResultWellFormed ==
    (AnalyzeReturned /\ ~g_ret.exc /\ g_ret.value.success) =>
        LET res == g_ret.value.result
        IN  /\ res.verdict \in {"REAL", "FAKE", "UNKNOWN"}
            /\ res.confidence \in 0..100
            /\ res.bias_type \in
                   {"Left", "Right", "Neutral", "Sensational", "Emotional", "Clickbait"}
            /\ Unusable(g_api) =>
                   /\ res.verdict = "UNKNOWN"
                   /\ res.confidence = 50
                   /\ res.bias_type = "Neutral"

C24_Witness ==
    /\ AnalyzeReturned
    /\ g_api # NoResult
    /\ g_api.kind = "reply"
    /\ g_api.content # NoResult
    /\ \E i \in 1..Len(g_api.content.text) : g_api.content.text[i] = Tok("num", "150")
    /\ g_ret.value.success
    /\ g_ret.value.result.verdict = "REAL"
    /\ g_ret.value.result.confidence = 100
    /\ g_ret.value.result.bias_type = "Clickbait"

\* C25: analyze_article_with_groq returns and never raises; a missing key, a
\* client that fails to initialise and an API error each give success false
\* with a non-empty error and result None; success is true exactly when
\* result is not None
C25_NeverRaises ==
    g_pc = "done" =>
        /\ ~g_ret.exc
        /\ (g_init.exc \/ (g_api # NoResult /\ g_api.kind # "reply")) =>
               /\ g_ret.value.success = FALSE
               /\ g_ret.value.error # <<>>
               /\ g_ret.value.result = NoResult
        /\ g_ret.value.success <=> (g_ret.value.result # NoResult)

C25_Witness ==
    /\ g_pc = "done"
    /\ g_init.exc
    /\ g_init.msg = <<"Failed to initialize Groq client: ">>
    /\ ~g_ret.exc
    /\ g_ret.value.success = FALSE
    /\ g_ret.value.error = g_init.msg

\* the host of the url that was scored
ScoredHost == UrlNetloc(dc_url)

\* the url scored has host D or www.D for a domain D of the reputation set
HostListedIn(set) ==
    \E D \in reputation[set] : ScoredHost \in {D, <<"w", "w", "w", ".">> \o D}

\* C26: a url whose host is a listed domain, or www. and a listed domain, is
\* given the score and the category of the set that lists the domain: 95
\* high, 80 good, 60 moderate, 30 low, 10 satire
C26_ListedDomainGetsSetScore ==
    dc_result # NoResult =>
        /\ HostListedIn("high_credibility") =>
               dc_result = [score |-> 95, category |-> "Highly Credible"]
        /\ HostListedIn("good_credibility") =>
               dc_result = [score |-> 80, category |-> "Good"]
        /\ HostListedIn("moderate_credibility") =>
               dc_result = [score |-> 60, category |-> "Moderate"]
        /\ HostListedIn("low_credibility") =>
               dc_result = [score |-> 30, category |-> "Low Credibility"]
        /\ HostListedIn("fake_satire") =>
               dc_result = [score |-> 10, category |-> "Satire/Fake"]

\* C27: a url whose host ends with .gov, .edu, .ac.uk, .ac.in or .nic.in, is
\* not a listed satire site and matches no suspicious pattern is scored 95,
\* "Highly Trusted"
C27_TrustedTldScored ==
    (/\ dc_result # NoResult
     /\ \E tld \in {<<".", "g", "o", "v">>, <<".", "e", "d", "u">>,
                    <<".", "a", "c", ".", "u", "k">>, <<".", "a", "c", ".", "i", "n">>,
                    <<".", "n", "i", "c", ".", "i", "n">>} : EndsWith(ScoredHost, tld)
     /\ ~HostListedIn("fake_satire")
     /\ ~check_suspicious_patterns(ScoredHost))
        => dc_result = [score |-> 95, category |-> "Highly Trusted"]

\* the k-th row of the database holds the hash of a text the user typed
RowOfPastedText(k) ==
    \E t \in PastedTexts : ss.db.rows[k].article_hash = [md5 |-> t]

\* the k-th row holds the hash of the article of url u
RowOfArticleAt(k, u) == ss.db.rows[k].article_hash = [md5 |-> ArticleText(u)]

\* C28: every saved analysis carries the url its text was extracted from and
\* the domain score of that url, and no url and no domain score when its
\* text was pasted
C28_SavedSourceMatchesText ==
    ss.db # NoResult =>
        \A k \in 1..Len(ss.db.rows) :
            IF RowOfPastedText(k)
            THEN ss.db.rows[k].url = None /\ ss.db.rows[k].domain_score = NoResult
            ELSE \E u \in UiUrls :
                    /\ RowOfArticleAt(k, u)
                    /\ ss.db.rows[k].url = u
                    /\ ss.db.rows[k].domain_score = [score |-> calculate_domain_score(u).score]

\* C29: a run of Extract Article that ends with the failure or the error
\* message leaves article_text, current_url, article_title,
\* domain_credibility and analysis_result as they were
C29_FailedExtractionKeepsSession ==
    [][shown' \in {"Failed to extract article", "Error extracting article"} =>
           /\ ss'.article_text = ss.article_text
           /\ ss'.current_url = ss.current_url
           /\ ss'.article_title = ss.article_title
           /\ ss'.domain_credibility = ss.domain_credibility
           /\ ss'.analysis_result = ss.analysis_result]_vars

C29_Witness ==
    /\ shown = "Failed to extract article"
    /\ ss.current_url # None
    /\ ss.article_title = <<"T">>
    /\ ss.domain_credibility # NoResult
    /\ ss.analysis_result # NoResult
    /\ ss.article_text = Rep(<<"p">>, 50)

\* C30: a run of Clear Results happens only while an analysis result is
\* stored; it sets analysis_result and current_url to None, article_text and
\* article_title to the empty string, domain_credibility to None, adds one
\* to input_key and leaves db as it was
C30_ClearResetsSession ==
    [][shown' = "cleared" =>
           /\ ss.analysis_result # NoResult
           /\ ss'.analysis_result = NoResult
           /\ ss'.article_text = <<>>
           /\ ss'.current_url = None
           /\ ss'.article_title = <<>>
           /\ ss'.domain_credibility = NoResult
           /\ ss'.input_key = ss.input_key + 1
           /\ ss'.db = ss.db]_vars

C30_Witness ==
    /\ shown = "cleared"
    /\ ss.input_key = 1
    /\ ss.current_url = None
    /\ ss.article_text = <<>>
    /\ ss.analysis_result = NoResult
    /\ ss.db # NoResult
    /\ Len(ss.db.rows) = 1
    /\ ss.db.rows[1].url # None

====
